---- MODULE Spec2Model ----
(***************************************************************************)
(* Model of src/pdf_renamer.py.                                            *)
(*                                                                         *)
(* PersistentRateLimiter (lines 246-408): the persisted ledger of API      *)
(* calls, its constructor, wait_if_needed and reset_today_count, run by    *)
(* one process (Spec) or by two processes that share the ledger file       *)
(* (SpecConc).  Time is the wall clock in whole seconds since 00:00 of     *)
(* day 0.  An ISO timestamp is modelled by that number and an ISO date by  *)
(* the day number: the code compares the ISO strings lexicographically,    *)
(* which for strings of this fixed layout is the chronological order.      *)
(*                                                                         *)
(* PDFRenamer (lines 436-1613): collector resolution and site resolution   *)
(* called on their own (SpecResolve), and the two methods that turn the    *)
(* oracle's answer for a document into a file name (SpecCompose).  Texts   *)
(* are sequences of characters and the string functions of Python are      *)
(* computed on them.                                                       *)
(***************************************************************************)
EXTENDS Integers, Sequences, FiniteSets, TLC

\* ---- bounds of the model ------------------------------------------------
MaxPerMinute == 1    \* max_per_minute given to the constructor
MaxPerDay == 2       \* max_per_day given to the constructor
MaxCalls == 3        \* calls of wait_if_needed in one behaviour
MaxAdvance == 2      \* clock jumps in one behaviour

\* ---- constants of the program -------------------------------------------
Minute == 60
Hour == 3600
Day == 86400
RetentionDays == 7

StartClock == Day - 30
Steps == {10, Hour, (RetentionDays + 1) * Day}
Keys == {"daily_requests", "minute_requests", "last_updated"}

VARIABLES
  procs,      \* the processes of this behaviour
  clock,      \* datetime.now(), in seconds
  disk,       \* content of the storage file
  pc,         \* per process: "down", "idle" or "sleeping" (in time.sleep)
  mem,        \* per process: self.usage_data
  loc,        \* per process: locals of the wait_if_needed call in progress
  outcome,    \* per process: how its last operation ended
  pre,        \* per process: ledger and file when its last call started
  admitted,   \* history: one entry per call that returned normally
  resetUsed,  \* history: reset_today_count was invoked
  calls,      \* number of wait_if_needed calls started
  refused,    \* number of calls that raised the daily-limit exception
  advances,   \* number of clock jumps taken
  tables,     \* PDFRenamer: alias table, collector catalog, site catalog
  first,      \* PDFRenamer: the first call of this behaviour and its outcome
  last,       \* PDFRenamer: the latest call and its outcome
  folder,     \* the directory of a batch: file name -> content of the file
  batch       \* rename_pdfs_in_directory: its locals, results and history

renVars == <<tables, first, last, folder, batch>>

vars == <<procs, clock, disk, pc, mem, loc, outcome, pre, admitted,
          resetUsed, calls, refused, advances, tables, first, last, folder, batch>>

\* ---- dates and ledgers --------------------------------------------------
DateOf(t) == t \div Day

EmptyDaily == [d \in {} |-> 0]

SetDaily(f, d, v) == [x \in (DOMAIN f) \cup {d} |-> IF x = d THEN v ELSE f[x]]

default_data(now) ==
  [daily_requests |-> EmptyDaily, minute_requests |-> <<>>, last_updated |-> now]

NoLedger == default_data(0)

FileOf(data) == [kind |-> "record", has |-> Keys, data |-> data]

BadFile(k) == [kind |-> k, has |-> {}, data |-> NoLedger]

\* _save_usage_data stamps last_updated on the dict it is given, which is
\* the in-memory dict itself, and overwrites the file with it.
save_usage_data(data, now) == [data EXCEPT !.last_updated = now]

\* json.load and the key loop of _load_usage_data
LoadRaises(file) == file.kind = "nonobject"

load_usage_data(file, now) ==
  IF file.kind \in {"missing", "garbage"}
    THEN save_usage_data(default_data(now), now)
    ELSE [k \in Keys |-> IF k \in file.has THEN file.data[k] ELSE default_data(now)[k]]

CleanupRaises(file) == file.kind = "badtypes"

\* the clean-up with its pruning left out
cleanup_old_data_NoPrune(data, now) == save_usage_data(data, now)

cleanup_old_data(data, now) ==
  LET cutoff_date == DateOf(now - RetentionDays * Day)
      hour_ago == now - Hour
      kept == {d \in DOMAIN data.daily_requests : ~(d < cutoff_date)}
  IN  save_usage_data(
        [data EXCEPT !.daily_requests = [d \in kept |-> data.daily_requests[d]],
                     !.minute_requests = SelectSeq(@, LAMBDA r : r > hour_ago)],
        now)

get_today_requests(data, now) ==
  IF DateOf(now) \in DOMAIN data.daily_requests
    THEN data.daily_requests[DateOf(now)] ELSE 0

get_minute_requests(data, now) ==
  SelectSeq(data.minute_requests, LAMBDA r : r > now - Minute)

\* the daily check with > in place of >=
DailyLimitReached_Strict(today_requests) == today_requests > MaxPerDay

\* the daily check that lets one call more than the ceiling through
DailyLimitReached_Late(today_requests) == today_requests >= MaxPerDay + 1

DailyLimitReached(today_requests) == today_requests >= MaxPerDay

MinuteLimitReached(minute_requests) == Len(minute_requests) >= MaxPerMinute

\* the sleep computed from a horizon that is ten seconds too short
SleepTime_Short(now, oldest) == (Minute - 10) - (now - oldest)

SleepTime(now, oldest) == Minute - (now - oldest)

\* the request recorded before the sleep instead of after it
LedgerWhileWaiting_Early(data, now) ==
  [data EXCEPT !.minute_requests = Append(@, now)]

\* the ledger while the caller is in time.sleep: nothing has been recorded
LedgerWhileWaiting(data, now) == data

\* lines 369-374: record the request and save
RecordRequest(data, now, today_str, today_requests, saveTime) ==
  save_usage_data(
    [data EXCEPT !.minute_requests = Append(@, now),
                 !.daily_requests = SetDaily(@, today_str, today_requests + 1)],
    saveTime)

Range(s) == {s[i] : i \in 1..Len(s)}

\* the oldest timestamp of a non-empty window, whatever its position
Oldest(minute_requests) ==
  CHOOSE r \in Range(minute_requests) : \A q \in Range(minute_requests) : r <= q

NoLocals ==
  [now |-> 0, today_str |-> 0, today_requests |-> 0, first |-> 0, oldest |-> 0, wakeAt |-> 0]

\* ---- PDFRenamer before any document ---------------------------------------
\* A text is a sequence of characters, a character a one-character string
\* (an accented letter or a combining mark is named, as in "e_acute").
\* Python's None is a value of its own, distinct from the empty text.
None == <<"None">>

Falsy(x) == x = None \/ x = <<>>

NoTables == [aliases |-> <<>>, prestataires |-> <<>>, valid |-> {}, restaurants |-> <<>>]

\* the fields of the oracle's answer read by the renamer (an absent field and a
\* null field are both None)
NoAnalysis ==
  [entreprise |-> None, invoice_provider |-> None, invoice_date |-> None,
   invoice_number |-> None, restaurant_address |-> None, site_number |-> None]

\* the four components of "{site}-{collecte}-{date}-{number}.pdf"
NoFile == [site |-> None, collecte |-> None, date |-> None, number |-> None]

\* a call: its number in the behaviour, the operation, its input, the iteration
\* order of the provider words, what it passed on and what it returned
NoRun ==
  [n |-> 0, op |-> "none", input |-> NoAnalysis, order |-> <<>>, base_collecte |-> None,
   siteCalled |-> FALSE, address |-> None, site |-> None, name |-> None,
   produced |-> FALSE, filename |-> NoFile, error |-> "none"]

\* no directory
NoFolder == [name \in {} |-> None]

NoResults == [success |-> <<>>, failed |-> <<>>, skipped |-> <<>>]

\* no batch is running: phase is "none", then "admit" while the document
\* pdf_files[i] is in or before wait_if_needed, then "done"; calls0 and
\* admitted0 are the counters of the limiter when the document was started;
\* log has one row per processed document, listed is the directory as it was
\* listed, aborted says that an exception left the loop
NoBatch ==
  [phase |-> "none", dry_run |-> FALSE, pdf_files |-> <<>>, i |-> 0,
   calls0 |-> 0, admitted0 |-> 0, results |-> NoResults, log |-> <<>>,
   listed |-> NoFolder, aborted |-> FALSE]

BatchIdle == folder = NoFolder /\ batch = NoBatch

RenamerIdle == tables = NoTables /\ first = NoRun /\ last = NoRun /\ BatchIdle

\* ---- initial states -----------------------------------------------------
\* a ledger the program wrote earlier today: MaxPerDay - 1 calls so far, the
\* last one five seconds before the model starts
EarlierDaily == SetDaily(EmptyDaily, DateOf(StartClock), MaxPerDay - 1)

EarlierLedger ==
  [daily_requests |-> EarlierDaily, minute_requests |-> <<StartClock - 5>>,
   last_updated |-> StartClock - 5]

InitFiles ==
  { BadFile("missing"), BadFile("garbage"), BadFile("nonobject"), BadFile("badtypes"),
    FileOf(default_data(StartClock - 5)),
    FileOf(EarlierLedger),
    [kind |-> "record", has |-> {"daily_requests"},
     data |-> [NoLedger EXCEPT !.daily_requests = EarlierDaily]],
    [kind |-> "record", has |-> {"minute_requests", "last_updated"},
     data |-> [EarlierLedger EXCEPT !.daily_requests = EmptyDaily]] }

InitWith(P) ==
  /\ procs = P
  /\ clock = StartClock
  /\ disk \in InitFiles
  /\ pc = [p \in P |-> "down"]
  /\ mem = [p \in P |-> NoLedger]
  /\ loc = [p \in P |-> NoLocals]
  /\ outcome = [p \in P |-> "none"]
  /\ pre = [p \in P |-> [mem |-> NoLedger, disk |-> BadFile("missing"), at |-> 0]]
  /\ admitted = <<>>
  /\ resetUsed = FALSE
  /\ calls = 0
  /\ refused = 0
  /\ advances = 0

Init == InitWith({1}) /\ RenamerIdle

\* two processes started on the same ledger file
InitConc == InitWith({1, 2}) /\ disk \in {BadFile("missing"), FileOf(EarlierLedger)} /\ RenamerIdle

\* ---- actions ------------------------------------------------------------
\* PersistentRateLimiter.__init__: load, clean up, save
Construct(p) ==
  /\ pc[p] = "down"
  /\ outcome[p] # "ctor_raised"
  /\ IF LoadRaises(disk) \/ CleanupRaises(disk)
       THEN /\ outcome' = [outcome EXCEPT ![p] = "ctor_raised"]
            /\ UNCHANGED <<disk, pc, mem>>
       ELSE LET data == cleanup_old_data(load_usage_data(disk, clock), clock)
            IN  /\ mem' = [mem EXCEPT ![p] = data]
                /\ disk' = FileOf(data)
                /\ pc' = [pc EXCEPT ![p] = "idle"]
                /\ outcome' = [outcome EXCEPT ![p] = "ctor_ok"]
  /\ pre' = [pre EXCEPT ![p] = [mem |-> NoLedger, disk |-> disk, at |-> clock]]
  /\ UNCHANGED <<procs, clock, loc, admitted, resetUsed, calls, refused, advances>>
  /\ UNCHANGED renVars

\* wait_if_needed up to its return, its raise or its time.sleep
Begin(p) ==
  /\ pc[p] = "idle"
  /\ calls < MaxCalls
  /\ calls' = calls + 1
  /\ pre' = [pre EXCEPT ![p] = [mem |-> mem[p], disk |-> disk, at |-> clock]]
  /\ LET now == clock
         today_str == DateOf(now)
         today_requests == get_today_requests(mem[p], clock)
         minute_requests == get_minute_requests(mem[p], clock)
     IN  IF DailyLimitReached(today_requests)
           THEN /\ outcome' = [outcome EXCEPT ![p] = "daily_limit"]
                /\ refused' = refused + 1
                /\ UNCHANGED <<disk, pc, mem, loc, admitted>>
           ELSE IF MinuteLimitReached(minute_requests)
                   /\ SleepTime(now, minute_requests[1]) > 0
             THEN /\ pc' = [pc EXCEPT ![p] = "sleeping"]
                  /\ loc' = [loc EXCEPT ![p] =
                       [now |-> now, today_str |-> today_str,
                        today_requests |-> today_requests,
                        first |-> minute_requests[1],
                        oldest |-> Oldest(minute_requests),
                        wakeAt |-> now + SleepTime(now, minute_requests[1])]]
                  /\ mem' = [mem EXCEPT ![p] = LedgerWhileWaiting(mem[p], now)]
                  /\ outcome' = [outcome EXCEPT ![p] = "waiting"]
                  /\ UNCHANGED <<disk, admitted, refused>>
             ELSE LET data == RecordRequest(mem[p], now, today_str, today_requests, clock)
                  IN  /\ mem' = [mem EXCEPT ![p] = data]
                      /\ disk' = FileOf(data)
                      /\ outcome' = [outcome EXCEPT ![p] = "admitted"]
                      /\ admitted' = Append(admitted,
                           [p |-> p, now |-> now, at |-> clock, blocked |-> FALSE,
                            oldest |-> 0, window |-> Len(minute_requests)])
                      /\ UNCHANGED <<pc, loc, refused>>
  /\ UNCHANGED <<procs, clock, resetUsed, advances>>
  /\ UNCHANGED renVars

\* time.sleep returns; lines 367-374
Wake(p) ==
  /\ pc[p] = "sleeping"
  /\ clock >= loc[p].wakeAt
  /\ LET minute_requests == get_minute_requests(mem[p], clock)
         data == RecordRequest(mem[p], loc[p].now, loc[p].today_str,
                               loc[p].today_requests, clock)
     IN  /\ mem' = [mem EXCEPT ![p] = data]
         /\ disk' = FileOf(data)
         /\ admitted' = Append(admitted,
              [p |-> p, now |-> loc[p].now, at |-> clock, blocked |-> TRUE,
               oldest |-> loc[p].oldest, window |-> Len(minute_requests)])
  /\ pc' = [pc EXCEPT ![p] = "idle"]
  /\ loc' = [loc EXCEPT ![p] = NoLocals]
  /\ outcome' = [outcome EXCEPT ![p] = "admitted"]
  /\ UNCHANGED <<procs, clock, pre, resetUsed, calls, refused, advances>>
  /\ UNCHANGED renVars

\* the caller is interrupted in time.sleep: the exception leaves wait_if_needed
Abandon(p) ==
  /\ pc[p] = "sleeping"
  /\ pc' = [pc EXCEPT ![p] = "idle"]
  /\ loc' = [loc EXCEPT ![p] = NoLocals]
  /\ outcome' = [outcome EXCEPT ![p] = "abandoned"]
  /\ UNCHANGED <<procs, clock, disk, mem, pre, admitted, resetUsed, calls, refused, advances>>
  /\ UNCHANGED renVars

\* reset_today_count
Reset(p) ==
  /\ pc[p] = "idle"
  /\ ~resetUsed
  /\ LET data == save_usage_data(
                   [mem[p] EXCEPT !.daily_requests = SetDaily(@, DateOf(clock), 0)], clock)
     IN  /\ mem' = [mem EXCEPT ![p] = data]
         /\ disk' = FileOf(data)
  /\ resetUsed' = TRUE
  /\ outcome' = [outcome EXCEPT ![p] = "reset"]
  /\ UNCHANGED <<procs, clock, pc, loc, pre, admitted, calls, refused, advances>>
  /\ UNCHANGED renVars

\* the process dies; its memory is lost, the file stays
Crash(p) ==
  /\ pc[p] \in {"idle", "sleeping"}
  /\ pc' = [pc EXCEPT ![p] = "down"]
  /\ mem' = [mem EXCEPT ![p] = NoLedger]
  /\ loc' = [loc EXCEPT ![p] = NoLocals]
  /\ outcome' = [outcome EXCEPT ![p] = "crashed"]
  /\ UNCHANGED <<procs, clock, disk, pre, admitted, resetUsed, calls, refused, advances>>
  /\ UNCHANGED renVars

\* time passes, up to the next moment a sleeper is due at most (time beyond
\* it passes after AdvanceToWake, when the sleeper is due and has not run yet)
Advance(d) ==
  /\ advances < MaxAdvance
  /\ \A p \in procs : pc[p] = "sleeping" => (clock >= loc[p].wakeAt \/ clock + d <= loc[p].wakeAt)
  /\ advances' = advances + 1
  /\ clock' = clock + d
  /\ UNCHANGED <<procs, disk, pc, mem, loc, outcome, pre, admitted, resetUsed, calls, refused>>
  /\ UNCHANGED renVars

\* time passes up to the moment the earliest sleeper is due
AdvanceToWake ==
  /\ \E p \in procs : pc[p] = "sleeping" /\ loc[p].wakeAt > clock
  /\ clock' = CHOOSE t \in {loc[p].wakeAt : p \in {q \in procs : pc[q] = "sleeping" /\ loc[q].wakeAt > clock}} :
                \A q \in procs : (pc[q] = "sleeping" /\ loc[q].wakeAt > clock) => t <= loc[q].wakeAt
  /\ UNCHANGED <<procs, disk, pc, mem, loc, outcome, pre, admitted, resetUsed, calls, refused, advances>>
  /\ UNCHANGED renVars

Next ==
  \/ \E p \in procs : Construct(p)
  \/ \E p \in procs : Begin(p)
  \/ \E p \in procs : Wake(p)
  \/ \E p \in procs : Abandon(p)
  \/ \E p \in procs : Reset(p)
  \/ \E p \in procs : Crash(p)
  \/ \E d \in Steps : Advance(d)
  \/ AdvanceToWake

Spec == Init /\ [][Next]_vars

\* two processes that neither crash nor reset the counter
NextConc ==
  \/ \E p \in procs : Construct(p)
  \/ \E p \in procs : Begin(p)
  \/ \E p \in procs : Wake(p)
  \/ \E d \in Steps : Advance(d)
  \/ AdvanceToWake

SpecConc == InitConc /\ [][NextConc]_vars

TypeOK ==
  /\ clock \in Nat
  /\ \A p \in procs : pc[p] \in {"down", "idle", "sleeping"}

\* ---- properties --------------------------------------------------------
Up(p) == pc[p] # "down"

Today(data, t) == get_today_requests(data, t)

\* the entries of the history that belong to the calendar date d, by the
\* moment the call returned (at) or by the timestamp it recorded (now)
AdmittedOn(d) == {i \in 1..Len(admitted) : DateOf(admitted[i].at) = d}

RecordedOn(d) == {i \in 1..Len(admitted) : DateOf(admitted[i].now) = d}

LastAdmitted == admitted[Len(admitted)]

\* at most MaxPerMinute timestamps of the ledger in every 60-second window
\* that ends at one of them
WindowWithinCeiling(data) ==
  LET m == data.minute_requests
  IN  \A i \in 1..Len(m) :
        Cardinality({j \in 1..Len(m) : m[j] > m[i] - Minute /\ m[j] <= m[i]}) <= MaxPerMinute

DailyWithinCeiling(data) ==
  \A d \in DOMAIN data.daily_requests : data.daily_requests[d] <= MaxPerDay

\* nothing older than the retention horizons, seen from time t
Pruned(data, t) ==
  /\ \A i \in 1..Len(data.minute_requests) : data.minute_requests[i] >= t - Hour
  /\ \A d \in DOMAIN data.daily_requests : d >= DateOf(t) - RetentionDays

\* C1: in every reachable ledger, in memory or on disk, no rolling 60-second
\* window holds more than MaxPerMinute recorded timestamps, also after a call
\* that was admitted after a blocking wait.
C1_WindowNeverExceedsCeiling ==
  /\ \A p \in procs : Up(p) => WindowWithinCeiling(mem[p])
  /\ disk.kind = "record" => WindowWithinCeiling(disk.data)

\* C2: the daily counter stored for any calendar date, in memory or on disk,
\* never exceeds MaxPerDay, also for a call that starts before midnight and
\* returns after it.
C2_DailyNeverExceedsCeiling ==
  /\ \A p \in procs : Up(p) => DailyWithinCeiling(mem[p])
  /\ disk.kind = "record" => DailyWithinCeiling(disk.data)

\* a call that started before midnight was admitted after it and brought the
\* counter of its start date to the ceiling
C2_Witness ==
  \E p \in procs :
    /\ outcome[p] = "admitted"
    /\ LastAdmitted.blocked
    /\ DateOf(LastAdmitted.now) < DateOf(LastAdmitted.at)
    /\ Today(mem[p], LastAdmitted.now) = MaxPerDay

\* C3: when wait_if_needed has returned normally, the window is the window
\* before the call plus one timestamp equal to the time of admission, the
\* counter of the day of admission is one higher than before the call, and
\* the file equals the ledger in memory.
C3_AdmitRecordsAdmission ==
  \A p \in procs :
    outcome[p] = "admitted" =>
      /\ mem[p].minute_requests = Append(pre[p].mem.minute_requests, LastAdmitted.at)
      /\ Today(mem[p], LastAdmitted.at) = Today(pre[p].mem, LastAdmitted.at) + 1
      /\ disk = FileOf(mem[p])

\* C4: a governor constructed after a crash holds, for the date of its
\* construction, a counter not lower than the number of calls admitted on that
\* date before, and holds the timestamp of every admission younger than 60
\* seconds (no reset_today_count in between).
C4_RestartKeepsAdmissions ==
  \A p \in procs :
    (outcome[p] = "ctor_ok" /\ ~resetUsed) =>
      LET t == pre[p].at
      IN  /\ Today(mem[p], t) >= Cardinality(AdmittedOn(DateOf(t)))
          /\ \A i \in 1..Len(admitted) :
                admitted[i].at > t - Minute => admitted[i].at \in Range(mem[p].minute_requests)

\* a call made while today's counter is at the ceiling raises at once and
\* leaves ledger and file as they were; a call below the ceiling does not raise
C5_RefusedUnchanged ==
  \A p \in procs :
    outcome[p] \in {"admitted", "waiting", "daily_limit"} =>
      /\ (Today(pre[p].mem, pre[p].at) >= MaxPerDay) <=> (outcome[p] = "daily_limit")
      /\ outcome[p] = "daily_limit" =>
            mem[p] = pre[p].mem /\ disk = pre[p].disk /\ pc[p] = "idle"

\* within one calendar date and without reset_today_count, a counter that is
\* at the ceiling stays there, in the file and in the memory of a live process
C5_StaysAtCeiling ==
  (DateOf(clock') = DateOf(clock) /\ resetUsed' = resetUsed) =>
    /\ (disk.kind = "record" /\ Today(disk.data, clock) >= MaxPerDay) =>
          (disk'.kind = "record" /\ Today(disk'.data, clock') >= MaxPerDay)
    /\ \A p \in procs :
          (Up(p) /\ Today(mem[p], clock) >= MaxPerDay /\ Up(p)') =>
            Today(mem'[p], clock') >= MaxPerDay
    /\ \A p \in procs :
          (~Up(p) /\ Up(p)' /\ disk.kind = "record" /\ Today(disk.data, clock) >= MaxPerDay) =>
            Today(mem'[p], clock') >= MaxPerDay

\* C5: at the daily ceiling wait_if_needed raises without waiting and without
\* touching ledger or file, and it keeps raising for the rest of that calendar
\* date, across restarts, unless reset_today_count is invoked.
C5_DailyLimitIsPermanent == []C5_RefusedUnchanged /\ [][C5_StaysAtCeiling]_vars

\* two calls in a row were refused at the ceiling
C5_Witness ==
  \E p \in procs :
    /\ outcome[p] = "daily_limit"
    /\ refused >= 2
    /\ Today(mem[p], clock) >= MaxPerDay

C7_NoAdmissionLost ==
  (disk.kind = "record" /\ ~resetUsed) =>
    /\ \A d \in {DateOf(admitted[i].now) : i \in 1..Len(admitted)} :
          d >= DateOf(clock) - RetentionDays =>
            Today(disk.data, d * Day) >= Cardinality(RecordedOn(d))
    /\ \A i \in 1..Len(admitted) :
          admitted[i].now > clock - Hour =>
            admitted[i].now \in Range(disk.data.minute_requests)

\* C8: construction never raises; from a missing, unparsable or malformed file
\* it yields the empty ledger, and from a record it keeps the keys present
\* (cleaned up) and defaults the missing ones.
C8_ConstructNeverFails ==
  \A p \in procs :
    /\ outcome[p] # "ctor_raised"
    /\ outcome[p] = "ctor_ok" =>
          LET file == pre[p].disk
              t == pre[p].at
          IN  IF file.kind # "record"
                THEN mem[p] = default_data(t)
                ELSE \A k \in Keys \ {"last_updated"} :
                       mem[p][k] = IF k \in file.has
                                     THEN cleanup_old_data(file.data, t)[k]
                                     ELSE default_data(t)[k]

\* C9: while a caller is blocked in the per-minute wait, and after it has
\* abandoned the wait, ledger and file are what they were when the call began.
C9_AbandonLeavesLedger ==
  \A p \in procs :
    outcome[p] \in {"waiting", "abandoned"} =>
      mem[p] = pre[p].mem /\ disk = pre[p].disk

\* a caller gave up a wait some time after it began
C9_Witness ==
  \E p \in procs :
    /\ outcome[p] = "abandoned"
    /\ clock > pre[p].at
    /\ MinuteLimitReached(get_minute_requests(pre[p].mem, pre[p].at))

AsciiLower == <<"a", "b", "c", "d", "e", "f", "g", "h", "i", "j", "k", "l", "m", "n", "o", "p", "q", "r", "s", "t", "u", "v", "w", "x", "y", "z">>

AsciiUpper == <<"A", "B", "C", "D", "E", "F", "G", "H", "I", "J", "K", "L", "M", "N", "O", "P", "Q", "R", "S", "T", "U", "V", "W", "X", "Y", "Z">>

Digits == <<"0", "1", "2", "3", "4", "5", "6", "7", "8", "9">>

\* letters with a diacritic, lower case and upper case, and their base letters
AccentedLower == <<"e_acute", "e_grave">>

AccentedUpper == <<"E_acute", "E_grave">>

AccentedBase == <<"e", "e">>

AccentedMark == <<"comb_acute", "comb_grave">>

CombiningMarks == {"comb_acute", "comb_grave"}

IndexIn(c, s) == CHOOSE i \in 1..Len(s) : s[i] = c

\* str.upper and str.lower, character by character
ToUpper(c) ==
  IF c \in Range(AsciiLower) THEN AsciiUpper[IndexIn(c, AsciiLower)]
  ELSE IF c \in Range(AccentedLower) THEN AccentedUpper[IndexIn(c, AccentedLower)]
  ELSE c

ToLower(c) ==
  IF c \in Range(AsciiUpper) THEN AsciiLower[IndexIn(c, AsciiUpper)]
  ELSE IF c \in Range(AccentedUpper) THEN AccentedLower[IndexIn(c, AccentedUpper)]
  ELSE c

Upper(t) == [i \in 1..Len(t) |-> ToUpper(t[i])]

Lower(t) == [i \in 1..Len(t) |-> ToLower(t[i])]

\* needle in hay, for Python strings
Contains(needle, hay) ==
  \E i \in 0..(Len(hay) - Len(needle)) : SubSeq(hay, i + 1, i + Len(needle)) = needle

\* re.split on a character class: the pieces between separators, empty ones
\* included
RECURSIVE SplitOn(_, _)
SplitOn(t, seps) ==
  IF \E i \in 1..Len(t) : t[i] \in seps
    THEN LET i == CHOOSE k \in 1..Len(t) :
                    t[k] \in seps /\ \A j \in 1..(k - 1) : t[j] \notin seps
         IN  <<SubSeq(t, 1, i - 1)>> \o SplitOn(SubSeq(t, i + 1, Len(t)), seps)
    ELSE <<t>>

\* str.split(): the pieces between runs of white space
Words(t) == SelectSeq(SplitOn(t, {" "}), LAMBDA w : w # <<>>)

\* str.strip()
RECURSIVE Strip(_)
Strip(t) ==
  IF t # <<>> /\ t[1] = " " THEN Strip(Tail(t))
  ELSE IF t # <<>> /\ t[Len(t)] = " " THEN Strip(SubSeq(t, 1, Len(t) - 1))
  ELSE t

\* sorted(s, key=..., reverse=True): keys[i] is the key of s[i]; the sort is
\* stable, elements of equal keys keep their order
SortedDesc(s, keys) ==
  LET rank(i) == Cardinality({j \in 1..Len(s) :
                    keys[j] > keys[i] \/ (keys[j] = keys[i] /\ j < i)})
  IN  [r \in 1..Len(s) |-> s[CHOOSE i \in 1..Len(s) : rank(i) = r - 1]]

\* sorted(s, key=...)
SortedAsc(s, keys) ==
  LET rank(i) == Cardinality({j \in 1..Len(s) :
                    keys[j] < keys[i] \/ (keys[j] = keys[i] /\ j < i)})
  IN  [r \in 1..Len(s) |-> s[CHOOSE i \in 1..Len(s) : rank(i) = r - 1]]

IsWordChar(c) ==
  c \in Range(AsciiLower) \cup Range(AsciiUpper) \cup Range(Digits) \cup {"_"}
        \cup Range(AccentedLower) \cup Range(AccentedUpper)

IsDigit(c) == c \in Range(Digits)

DigitValue(c) == IndexIn(c, Digits) - 1

\* re.sub(r'[^\w\s]', '', t)
StripPunct(t) == SelectSeq(t, LAMBDA c : IsWordChar(c) \/ c = " ")

\* unicodedata.normalize('NFD' or 'NFKD', t): a letter with a diacritic becomes
\* its base letter followed by the combining mark
RECURSIVE Decompose(_)
Decompose(t) ==
  IF t = <<>> THEN <<>>
  ELSE LET c == t[1]
       IN  (IF c \in Range(AccentedLower)
              THEN <<AccentedBase[IndexIn(c, AccentedLower)], AccentedMark[IndexIn(c, AccentedLower)]>>
            ELSE IF c \in Range(AccentedUpper)
              THEN <<ToUpper(AccentedBase[IndexIn(c, AccentedUpper)]), AccentedMark[IndexIn(c, AccentedUpper)]>>
            ELSE <<c>>) \o Decompose(Tail(t))

DropMarks(t) == SelectSeq(t, LAMBDA c : c \notin CombiningMarks)

StartsAt(t, i, pat) == i + Len(pat) - 1 <= Len(t) /\ SubSeq(t, i, i + Len(pat) - 1) = pat

\* ---- difflib.SequenceMatcher(None, a, b).ratio() ---------------------------
\* length of the common run of a and b that starts at a[i], b[j] and stays
\* within a[..ahi], b[..bhi]
RECURSIVE RunLen(_, _, _, _, _, _)
RunLen(a, b, i, j, ahi, bhi) ==
  IF i <= ahi /\ j <= bhi /\ a[i] = b[j]
    THEN 1 + RunLen(a, b, i + 1, j + 1, ahi, bhi)
    ELSE 0

\* the length of the common run at every pair of positions of a[alo..ahi] and
\* b[blo..bhi] that hold the same character
RunLens(a, b, alo, ahi, blo, bhi) ==
  [p \in {q \in (alo..ahi) \X (blo..bhi) : a[q[1]] = b[q[2]]} |->
     RunLen(a, b, p[1], p[2], ahi, bhi)]

\* the longest run, of those the one that starts earliest in a, of those the
\* earliest in b
LongestOf(len) ==
  CHOOSE p \in DOMAIN len : \A q \in DOMAIN len :
    \/ len[p] > len[q]
    \/ len[p] = len[q] /\ p[1] < q[1]
    \/ len[p] = len[q] /\ p[1] = q[1] /\ p[2] <= q[2]

BlockAt(len, best) == <<best[1], best[2], len[best]>>

BlockOf(alo, blo, len) ==
  IF DOMAIN len = {} THEN <<alo, blo, 0>> ELSE BlockAt(len, LongestOf(len))

\* find_longest_match: the longest common block of a[alo..ahi] and b[blo..bhi]
LongestMatch(a, b, alo, ahi, blo, bhi) ==
  BlockOf(alo, blo, RunLens(a, b, alo, ahi, blo, bhi))

\* get_matching_blocks: the characters in the blocks found left and right of
\* the longest one m, recursively
RECURSIVE Matches(_, _, _, _, _, _)
RECURSIVE MatchesAround(_, _, _, _, _, _, _)
MatchesAround(a, b, alo, ahi, blo, bhi, m) ==
  IF m[3] = 0 THEN 0
  ELSE m[3] + Matches(a, b, alo, m[1] - 1, blo, m[2] - 1)
            + Matches(a, b, m[1] + m[3], ahi, m[2] + m[3], bhi)

Matches(a, b, alo, ahi, blo, bhi) ==
  IF alo > ahi \/ blo > bhi THEN 0
  ELSE MatchesAround(a, b, alo, ahi, blo, bhi, LongestMatch(a, b, alo, ahi, blo, bhi))

\* the ratio 2*M/T as a fraction (1 for two empty texts)
Ratio(a, b) ==
  IF Len(a) + Len(b) = 0 THEN [n |-> 1, d |-> 1]
  ELSE [n |-> 2 * Matches(a, b, 1, Len(a), 1, Len(b)), d |-> Len(a) + Len(b)]

RECURSIVE GCD(_, _)
GCD(m, n) == IF n = 0 THEN m ELSE GCD(n, m % n)

\* a fraction in lowest terms (the products of the comparisons stay small)
Reduced(n, d) == [n |-> n \div GCD(n, d), d |-> d \div GCD(n, d)]

Greater(r, s) == r.n * s.d > s.n * r.d

\* r >= pct / 100
AtLeastPct(r, pct) == 100 * r.n >= pct * r.d

\* r > pct / 100
AbovePct(r, pct) == 100 * r.n > pct * r.d

ZeroRatio == [n |-> 0, d |-> 1]

\* ---- the tables loaded by __init__ ------------------------------------------
\* self.provider_aliases, in the order of the dict literal
provider_aliases ==
  << [alias |-> <<"C", "O", "V", "E", "D">>, parent |-> <<"P", "A", "P", "R", "E", "C">>],
     [alias |-> <<"I", "D", "D", "E", "E", " ", "1", "3", " ", "S", "A", "S">>, parent |-> <<"E", "L", "I", "S", "E">>],
     [alias |-> <<"E", "L", "I", "S", "E", " ", "M", "E", "D", "I", "T", "E", "R", "R", "A", "N", "E", "E">>, parent |-> <<"E", "L", "I", "S", "E">> ] >>

\* contents of Prestataires.csv the model starts from: the keys of
\* self.prestataires_data in file order
Catalogs ==
  { << <<"S", "U", "E", "Z">>, <<"P", "A", "P", "R", "E", "C">>, <<"E", "L", "I", "S", "E">>, <<"L", "E", "S", " ", "A", "L", "C", "H", "I", "M", "I", "S", "T", "E", "S">> >>,
    << <<"E", "L", "I", "S">>, <<"S", "U", "E", "Z">>, <<"V", "E", "O", "L", "I", "A">> >>,
    << <<"S", "U", "E", "Z">>, <<"R", "U", "B", "I", "O">> >> }

\* _load_valid_collectors reads the same file as _load_prestataires_data
load_valid_collectors(prestataires) == Range(prestataires)

\* ---- _find_base_collecte_name ------------------------------------------------
FUZZY_MATCH_THRESHOLD == 80

\* line 1520: the set of pieces of the upper-cased provider text
provider_words(provider_name) == Range(SplitOn(Upper(provider_name), {" ", ".", "-"}))

\* the orders in which a set can be iterated
Orders(S) ==
  {f \in [1..Cardinality(S) -> S] : \A i, j \in 1..Cardinality(S) : f[i] = f[j] => i = j}

\* the first element of s whose index is in hits, None if there is none: the
\* element at which a loop over s returns
First(s, hits) ==
  IF hits = {} THEN None ELSE s[CHOOSE i \in hits : \A j \in hits : i <= j]

\* lines 1514-1517: the parent of the first alias, in table order, that occurs
\* in the provider text
AliasMatch(aliases, provider_upper) ==
  First([i \in 1..Len(aliases) |-> aliases[i].parent],
        {i \in 1..Len(aliases) : Contains(Upper(aliases[i].alias), provider_upper)})

\* lines 1525-1530: the first collector all of whose words are words of the
\* provider text
FirstWordSubset(sorted_collectors, words) ==
  First(sorted_collectors,
        {i \in 1..Len(sorted_collectors) :
           Range(Words(Upper(sorted_collectors[i]))) \subseteq words})

\* lines 1524-1530
WordMatch(keys, words) ==
  FirstWordSubset(SortedDesc(keys, [i \in 1..Len(keys) |-> Len(Words(keys[i]))]), words)

\* lines 1535-1539: the first collector that occurs in the provider text
FirstContained(sorted_collectors, provider_upper) ==
  First(sorted_collectors,
        {i \in 1..Len(sorted_collectors) :
           Contains(Upper(sorted_collectors[i]), provider_upper)})

\* lines 1534-1539
SubstringMatch(keys, provider_upper) ==
  FirstContained(SortedDesc(keys, [i \in 1..Len(keys) |-> Len(keys[i])]), provider_upper)

\* lines 1549-1551
Better(best, collecte, ratio) ==
  IF Greater(ratio, best.ratio) THEN [match |-> collecte, ratio |-> ratio] ELSE best

\* lines 1542-1551 with the loops exchanged: for each word, for each collector
RECURSIVE FuzzyBest_WordMajor(_, _, _, _, _)
FuzzyBest_WordMajor(keys, order, k, w, best) ==
  IF w > Len(order) THEN best
  ELSE IF k > Len(keys) THEN FuzzyBest_WordMajor(keys, order, 1, w + 1, best)
  ELSE FuzzyBest_WordMajor(keys, order, k + 1, w,
         Better(best, keys[k], Ratio(Upper(keys[k]), order[w])))

\* lines 1542-1551: for each collector, for each word in the iteration order of
\* the set, keep the pair with a strictly greater ratio
RECURSIVE FuzzyBest(_, _, _, _, _)
FuzzyBest(keys, order, k, w, best) ==
  IF k > Len(keys) THEN best
  ELSE IF w > Len(order) THEN FuzzyBest(keys, order, k + 1, 1, best)
  ELSE FuzzyBest(keys, order, k, w + 1,
         Better(best, keys[k], Ratio(Upper(keys[k]), order[w])))

\* the acceptance test with the threshold lowered to 0.7
FuzzyAccepted_Low(best_ratio) == AtLeastPct(best_ratio, FUZZY_MATCH_THRESHOLD - 10)

\* line 1555
FuzzyAccepted(best_ratio) == AtLeastPct(best_ratio, FUZZY_MATCH_THRESHOLD)

\* lines 1554-1560
Accepted(best) == IF FuzzyAccepted(best.ratio) THEN best.match ELSE None

\* lines 1542-1560
FuzzyMatch(keys, order) ==
  Accepted(FuzzyBest(keys, order, 1, 1, [match |-> None, ratio |-> ZeroRatio]))

\* the tiers with the alias table consulted after the catalog
FirstFound_AliasLast(byAlias, byWord, bySubstring, byFuzzy) ==
  IF byWord # None THEN byWord
  ELSE IF bySubstring # None THEN bySubstring
  ELSE IF byAlias # None THEN byAlias
  ELSE byFuzzy

\* the order of the tiers: the first of them that returns
FirstFound(byAlias, byWord, bySubstring, byFuzzy) ==
  IF byAlias # None THEN byAlias
  ELSE IF byWord # None THEN byWord
  ELSE IF bySubstring # None THEN bySubstring
  ELSE byFuzzy

\* lines 1511-1560
base_collecte_of(T, provider_upper, words, order) ==
  FirstFound(AliasMatch(T.aliases, provider_upper),
             WordMatch(T.prestataires, words),
             SubstringMatch(T.prestataires, provider_upper),
             FuzzyMatch(T.prestataires, order))

\* _find_base_collecte_name; order is the iteration order of provider_words
find_base_collecte_name(T, provider_name, order) ==
  IF Falsy(provider_name) THEN None
  ELSE base_collecte_of(T, Upper(provider_name), provider_words(provider_name), order)

\* provider texts the oracle returns in the model
Providers ==
  { <<"S", "U", "E", "Z">>, <<"S", "u", "e", "z", " ", "R", "V", " ", "N", "o", "r", "d">>, <<"P", "A", "P", "R", "E", "C", "-", "I", "D", "F">>, <<"C", "O", "V", "E", "D">>, <<"C", "o", "v", "e", "d", " ", "S", "u", "d">>, <<"S", "U", "E", "Z", " ", "C", "O", "V", "E", "D">>,
    <<"C", "O", "V", "E", "D", " ", "E", "L", "I", "S", "E", " ", "M", "E", "D", "I", "T", "E", "R", "R", "A", "N", "E", "E">>, <<"I", "D", "D", "E", "E", " ", "1", "3", " ", "S", "A", "S">>, <<"S", "O", "C", "I", "E", "T", "E", " ", "R", "U", "B", "O">>, <<"S", "U", "E">>, <<"S", "U", "E", "X">>,
    <<"P", "A", "P", "R">>, <<"S", "U", "E", " ", "E", "L", "I">>, <<"L", "E", "S", " ", "A", "L", "C", "H", "E", "M", "I", "S", "T", "E", "S">>, <<"X", "Y", "Z">>, <<"V", "e", "o", "l", "i", "a">>, <<"R", "E", "F", "O", "O", "D">>, <<>> }

TablesOf(prestataires, restaurants) ==
  [aliases |-> provider_aliases, prestataires |-> prestataires,
   valid |-> load_valid_collectors(prestataires), restaurants |-> restaurants]

LimiterOff == InitWith({}) /\ disk = BadFile("missing")

\* ---- site resolution ----------------------------------------------------------
\* _normalize_text
normalize_text(text) ==
  IF Falsy(text) THEN <<>> ELSE Strip(Lower(DropMarks(Decompose(text))))

RECURSIVE SpacesFrom(_, _)
SpacesFrom(t, i) == IF i <= Len(t) /\ t[i] = " " THEN 1 + SpacesFrom(t, i + 1) ELSE 0

\* length of the match of (mcdonald[s]?|mac\s*do) at position i, 0 if none
BrandAt(t, i) ==
  IF StartsAt(t, i, <<"m", "c", "d", "o", "n", "a", "l", "d">>)
    THEN IF StartsAt(t, i + 8, <<"s">>) THEN 9 ELSE 8
  ELSE IF StartsAt(t, i, <<"m", "a", "c">>) /\ StartsAt(t, i + 3 + SpacesFrom(t, i + 3), <<"d", "o">>)
    THEN 5 + SpacesFrom(t, i + 3)
  ELSE 0

\* re.sub(r'(mcdonald[s]?|mac\s*do)', '', t): a match of length n at position
\* i is skipped, any other character is kept
RECURSIVE RemoveBrandFrom(_, _)
RECURSIVE SkipBrand(_, _, _)
SkipBrand(t, i, n) ==
  IF n > 0 THEN RemoveBrandFrom(t, i + n) ELSE <<t[i]>> \o RemoveBrandFrom(t, i + 1)

RemoveBrandFrom(t, i) ==
  IF i > Len(t) THEN <<>> ELSE SkipBrand(t, i, BrandAt(t, i))

RemoveBrand(t) == RemoveBrandFrom(t, 1)

HasBrand(clean) == Contains(<<"m", "c", "d", "o", "n", "a", "l", "d">>, clean) \/ Contains(<<"m", "a", "c", " ", "d", "o">>, clean)

\* lines 1215-1216
similar_locations(location1, location2) ==
  \/ Contains(location1, location2)
  \/ Contains(location2, location1)
  \/ \E word \in Range(Words(location1)) :
       Len(word) > 2 /\ word \in Range(Words(location2))

\* lines 1208-1220
similar_clean_names(name1_clean, name2_clean) ==
  IF HasBrand(name1_clean) /\ HasBrand(name2_clean)
    THEN similar_locations(Strip(RemoveBrand(name1_clean)), Strip(RemoveBrand(name2_clean)))
    ELSE \/ name1_clean = name2_clean
         \/ Contains(name1_clean, name2_clean)
         \/ Contains(name2_clean, name1_clean)

\* _is_similar_restaurant_name
is_similar_restaurant_name(name1, name2) ==
  similar_clean_names(StripPunct(Lower(name1)), StripPunct(Lower(name2)))

\* position p of t is a word boundary (\b): between t[p - 1] and t[p]
Boundary(t, p) ==
  (p > 1 /\ p - 1 <= Len(t) /\ IsWordChar(t[p - 1])) # (p >= 1 /\ p <= Len(t) /\ IsWordChar(t[p]))

\* the pattern, in which "." stands for any character, matches t at i
PatternAt(t, i, pat) ==
  /\ i + Len(pat) - 1 <= Len(t)
  /\ \A k \in 1..Len(pat) : pat[k] = "." \/ pat[k] = t[i + k - 1]

\* re.sub(r'\b' + full_form + r'\b', abbrev, t)
RECURSIVE SubWord(_, _, _, _)
SubWord(t, i, full_form, abbrev) ==
  IF i > Len(t) THEN <<>>
  ELSE IF Boundary(t, i) /\ PatternAt(t, i, full_form) /\ Boundary(t, i + Len(full_form))
    THEN abbrev \o SubWord(t, i + Len(full_form), full_form, abbrev)
  ELSE <<t[i]>> \o SubWord(t, i + 1, full_form, abbrev)

\* address_mappings, in the order of the dict literal
address_mappings ==
  << <<<<"a", "v", "e", "n", "u", "e">>, <<"a", "v">>>>, <<<<"a", "v", ".">>, <<"a", "v">>>>, <<<<"b", "o", "u", "l", "e", "v", "a", "r", "d">>, <<"b", "d">>>>, <<<<"b", "d", ".">>, <<"b", "d">>>>,
     <<<<"r", "u", "e">>, <<"r">>>>, <<<<"p", "l", "a", "c", "e">>, <<"p", "l">>>>, <<<<"p", "l", ".">>, <<"p", "l">>>>, <<<<"s", "a", "i", "n", "t">>, <<"s", "t">>>>,
     <<<<"s", "a", "i", "n", "t", "e">>, <<"s", "t", "e">>>>, <<<<"s", "t", ".">>, <<"s", "t">>>>, <<<<"s", "t", "e", ".">>, <<"s", "t", "e">>>> >>

RECURSIVE ApplyMappings(_, _)
ApplyMappings(t, k) ==
  IF k > Len(address_mappings) THEN t
  ELSE ApplyMappings(SubWord(t, 1, address_mappings[k][1], address_mappings[k][2]), k + 1)

\* re.sub(r'\s+', ' ', t)
RECURSIVE SqueezeSpaces(_)
SqueezeSpaces(t) ==
  IF Len(t) < 2 THEN t
  ELSE IF t[1] = " " /\ t[2] = " " THEN SqueezeSpaces(Tail(t))
  ELSE <<t[1]>> \o SqueezeSpaces(Tail(t))

\* _normalize_address
normalize_address(address) ==
  IF Falsy(address) THEN <<>>
  ELSE Strip(SqueezeSpaces(StripPunct(ApplyMappings(Strip(Lower(address)), 1))))

\* lines 621-625
similarity_of_normalized(norm_addr1, norm_addr2) ==
  IF norm_addr1 = <<>> \/ norm_addr2 = <<>> THEN ZeroRatio
  ELSE Ratio(norm_addr1, norm_addr2)

\* _calculate_address_similarity
calculate_address_similarity(addr1, addr2) ==
  similarity_of_normalized(normalize_address(addr1), normalize_address(addr2))

\* _calculate_name_similarity
calculate_name_similarity(name1, name2) ==
  IF Falsy(name1) \/ Falsy(name2) THEN ZeroRatio
  ELSE Ratio(Strip(Lower(name1)), Strip(Lower(name2)))

\* _extract_postal_code: the first run of exactly five digits between word
\* boundaries
extract_postal_code(address) ==
  IF Falsy(address) THEN None
  ELSE First([i \in 1..Len(address) |-> SubSeq(address, i, i + 4)],
             {i \in 1..Len(address) :
                /\ i + 4 <= Len(address)
                /\ \A k \in 0..4 : IsDigit(address[i + k])
                /\ Boundary(address, i)
                /\ Boundary(address, i + 5)})

\* the loops "if score > best: best = score; match = x", started at 0.0: the
\* index of the first element with the greatest score, 0 if no score is
\* positive
BestIndex(scores) ==
  IF \A i \in 1..Len(scores) : ~Greater(scores[i], ZeroRatio) THEN 0
  ELSE CHOOSE i \in 1..Len(scores) :
         \A j \in 1..Len(scores) :
           ~Greater(scores[j], scores[i]) /\ (j < i => Greater(scores[i], scores[j]))

\* the restaurants with an index in chosen, by decreasing similarity; the sort
\* is stable (line 673)
SortedBySimilarity(restaurants, sims, chosen) ==
  LET rank(i) == Cardinality({j \in chosen :
                    Greater(sims[j], sims[i]) \/ (~Greater(sims[i], sims[j]) /\ j < i)})
  IN  [r \in 1..Cardinality(chosen) |-> restaurants[CHOOSE i \in chosen : rank(i) = r - 1]]

\* lines 643-670: the matches by name and address (threshold 0.7) and, if
\* there are none and several restaurants match the name, those by address
\* alone (threshold 0.5)
matches_or_fallback(strong, name_matches, sims) ==
  IF strong # {} THEN strong
  ELSE IF Cardinality(name_matches) > 1
    THEN {i \in name_matches : AtLeastPct(sims[i], 50)}
  ELSE {}

address_matches_of(restaurants, similar, sims) ==
  SortedBySimilarity(restaurants, sims,
    matches_or_fallback({i \in 1..Len(restaurants) : similar[i] /\ AtLeastPct(sims[i], 70)},
                        {i \in 1..Len(restaurants) : similar[i]}, sims))

\* _find_address_matches, best match first
find_address_matches(T, restaurant_name, address) ==
  address_matches_of(T.restaurants,
    [i \in 1..Len(T.restaurants) |->
       is_similar_restaurant_name(Lower(restaurant_name), Lower(T.restaurants[i].Nom))],
    [i \in 1..Len(T.restaurants) |->
       calculate_address_similarity(address, T.restaurants[i].Adresse)])

\* the name_similarity of _find_postal_code_matches, in percent
postal_name_similarity(r, restaurant_name) ==
  IF Falsy(restaurant_name) THEN 0
  ELSE IF \E part \in Range(Words(Lower(restaurant_name))) : Contains(part, Lower(r.Nom))
    THEN 100
  ELSE IF \E part \in Range(Words(Lower(r.Nom))) : Contains(part, Lower(restaurant_name))
    THEN 80
  ELSE 0

\* lines 912-914
sorted_postal_matches(matches, restaurant_name) ==
  IF Falsy(restaurant_name) THEN matches
  ELSE SortedDesc(matches, [i \in 1..Len(matches) |->
                              postal_name_similarity(matches[i], restaurant_name)])

\* _find_postal_code_matches
find_postal_code_matches(T, invoice_postal_code, restaurant_name) ==
  IF Falsy(invoice_postal_code) THEN <<>>
  ELSE sorted_postal_matches(SelectSeq(T.restaurants, LAMBDA r : r.CP = invoice_postal_code),
                             restaurant_name)

NotFound == [site |-> None, name |-> None]

\* the loader stores str(int(...)) as Site, which is never empty
Found(r) == [site |-> r.Site, name |-> r.Nom]

\* best_match.get(...) on None
Raised == [site |-> <<"raised">>, name |-> None]

\* lines 930-950
name_matches_of(T, normalized_name) ==
  LET name_keywords == Range(Words(normalize_text(Strip(RemoveBrand(normalized_name)))))
      address_contains_keyword(r) ==
        \E keyword \in name_keywords :
          Len(keyword) > 3 /\ Contains(keyword, normalize_text(Lower(r.Adresse)))
  IN  IF normalized_name = <<>> THEN <<>>
      ELSE SelectSeq(T.restaurants, LAMBDA r :
             \/ is_similar_restaurant_name(normalized_name, Lower(r.Nom))
             \/ address_contains_keyword(r))

\* line 1078: the penalty of 0.9
penalised(name_similarity) == Reduced(9 * name_similarity.n, 10 * name_similarity.d)

\* lines 1075-1082: the name similarity after penalty and boost
adjusted_name_similarity(r, entreprise_name, name_similarity) ==
  IF Lower(r.Nom) = Lower(entreprise_name) THEN [n |-> 3, d |-> 2]
  ELSE IF Len(r.Nom) > Len(entreprise_name)
          /\ Contains(Lower(entreprise_name), Lower(r.Nom))
    THEN penalised(name_similarity)
  ELSE name_similarity

\* lines 1084-1090: name similarity weighted 0.7, address similarity 0.3
weighted_score(name, addr) ==
  Reduced(7 * name.n * addr.d + 3 * addr.n * name.d, 10 * name.d * addr.d)

\* lines 1068-1094
combined_score(r, entreprise_name, restaurant_address) ==
  weighted_score(
    adjusted_name_similarity(r, entreprise_name,
                             calculate_name_similarity(entreprise_name, r.Nom)),
    calculate_address_similarity(restaurant_address, r.Adresse))

\* lines 1096-1103
accepted_combined(postal_matches, scores, best) ==
  IF best # 0 /\ AtLeastPct(scores[best], 50) THEN Found(postal_matches[best]) ELSE NotFound

\* lines 1063-1103
best_combined(postal_matches, scores) ==
  accepted_combined(postal_matches, scores, BestIndex(scores))

\* lines 1053-1103
global_postal_choice(postal_matches, entreprise_name, restaurant_address) ==
  IF postal_matches = <<>> THEN NotFound
  ELSE IF Len(postal_matches) = 1 THEN Found(postal_matches[1])
  ELSE best_combined(postal_matches,
         [i \in 1..Len(postal_matches) |->
            combined_score(postal_matches[i], entreprise_name, restaurant_address)])

\* lines 1048-1105: global postal code matching; NotFound stands for falling
\* through
global_postal_match(T, entreprise_name, restaurant_address) ==
  global_postal_choice(
    find_postal_code_matches(T, extract_postal_code(restaurant_address), entreprise_name),
    entreprise_name, restaurant_address)

\* the acceptance test that wants equal postal codes: no override for a strong
\* match, no acceptance when a postal code is missing
disambiguated_EqualCodesOnly(name_matches, sims, invoice_postal_code, best) ==
  IF best = 0 \/ ~AbovePct(sims[best], 60) THEN NotFound
  ELSE IF name_matches[best].CP = invoice_postal_code THEN Found(name_matches[best])
  ELSE NotFound

\* lines 1013-1046
disambiguated(name_matches, sims, invoice_postal_code, best) ==
  IF best = 0 \/ ~AbovePct(sims[best], 60) THEN NotFound
  ELSE IF invoice_postal_code # None /\ name_matches[best].CP # <<>>
          /\ name_matches[best].CP # invoice_postal_code
    THEN IF AbovePct(sims[best], 80) THEN Found(name_matches[best]) ELSE NotFound
  ELSE Found(name_matches[best])

\* lines 1001-1046
best_by_address(name_matches, sims, invoice_postal_code) ==
  disambiguated(name_matches, sims, invoice_postal_code, BestIndex(sims))

\* lines 998-1046: disambiguation of several name matches by address; NotFound
\* stands for falling through
address_disambiguation(name_matches, restaurant_address) ==
  best_by_address(name_matches,
    [i \in 1..Len(name_matches) |->
       calculate_address_similarity(restaurant_address, name_matches[i].Adresse)],
    extract_postal_code(restaurant_address))

\* lines 1192-1198 without the sort: the first name match
shortest_name_match_Unsorted(name_matches) == Found(name_matches[1])

\* lines 1192-1198: the name match with the shortest name
shortest_name_match(name_matches) ==
  Found(SortedAsc(name_matches, [i \in 1..Len(name_matches) |-> Len(name_matches[i].Nom)])[1])

\* lines 1136, 1169: the similarity of each candidate's name to the name of the
\* invoice
name_similarities(candidates, normalized_name) ==
  [i \in 1..Len(candidates) |->
     calculate_name_similarity(normalized_name, Lower(candidates[i].Nom))]

\* lines 1130-1149: best_match stays None if no similarity is positive
best_of_name_matches(postal_code_name_matches, best) ==
  IF best = 0 THEN Raised ELSE Found(postal_code_name_matches[best])

\* lines 1175-1183
accepted_postal(all_postal_matches, sims, best) ==
  IF best # 0 /\ AbovePct(sims[best], 30) THEN Found(all_postal_matches[best]) ELSE NotFound

\* lines 1151-1183
best_of_all(all_postal_matches, sims) ==
  accepted_postal(all_postal_matches, sims, BestIndex(sims))

\* lines 1118-1187
validated_by_postal_code(postal_code_name_matches, all_postal_matches, normalized_name) ==
  IF Len(postal_code_name_matches) = 1 THEN Found(postal_code_name_matches[1])
  ELSE IF Len(postal_code_name_matches) > 1
    THEN best_of_name_matches(postal_code_name_matches,
           BestIndex(name_similarities(postal_code_name_matches, normalized_name)))
  ELSE best_of_all(all_postal_matches, name_similarities(all_postal_matches, normalized_name))

\* lines 1114-1198
validated(T, name_matches, normalized_name, invoice_postal_code) ==
  IF invoice_postal_code = None THEN shortest_name_match(name_matches)
  ELSE validated_by_postal_code(
         SelectSeq(name_matches, LAMBDA r : r.CP = invoice_postal_code),
         SelectSeq(T.restaurants, LAMBDA r : r.CP = invoice_postal_code),
         normalized_name)

\* lines 1107-1198
postal_validation(T, name_matches, normalized_name, restaurant_address) ==
  validated(T, name_matches, normalized_name,
            IF Falsy(restaurant_address) THEN None ELSE extract_postal_code(restaurant_address))

\* lines 959-982: the best address match, else the best postal code match
first_fallback(address_matches, postal_matches) ==
  IF address_matches # <<>> THEN Found(address_matches[1])
  ELSE IF postal_matches # <<>> THEN Found(postal_matches[1])
  ELSE NotFound

\* lines 952-988: no restaurant matches the name
without_name_matches(T, entreprise_name, restaurant_address) ==
  IF Falsy(restaurant_address) THEN NotFound
  ELSE first_fallback(
         find_address_matches(T, IF Falsy(entreprise_name) THEN <<"U", "n", "k", "n", "o", "w", "n">> ELSE entreprise_name,
                              restaurant_address),
         find_postal_code_matches(T, extract_postal_code(restaurant_address),
                                  IF Falsy(entreprise_name) THEN <<>> ELSE entreprise_name))

\* the first strategy that returns a site
first_site(byAddress, byPostal, byValidation) ==
  IF byAddress # NotFound THEN byAddress
  ELSE IF byPostal # NotFound THEN byPostal
  ELSE byValidation

\* lines 997-1198: some restaurants match the name and the collector is known
with_name_matches(T, name_or_empty, normalized_name, name_matches, restaurant_address) ==
  first_site(
    IF Len(name_matches) > 1 /\ ~Falsy(restaurant_address)
      THEN address_disambiguation(name_matches, restaurant_address) ELSE NotFound,
    IF Len(name_matches) > 1 /\ ~Falsy(restaurant_address)
      THEN global_postal_match(T, name_or_empty, restaurant_address) ELSE NotFound,
    postal_validation(T, name_matches, normalized_name, restaurant_address))

\* lines 952-1200
site_of_matches(T, entreprise_name, name_or_empty, normalized_name, name_matches,
                collecte, restaurant_address) ==
  IF name_matches = <<>> THEN without_name_matches(T, entreprise_name, restaurant_address)
  ELSE IF Upper(collecte) \notin {Upper(c) : c \in Range(T.prestataires)} THEN NotFound
  ELSE with_name_matches(T, name_or_empty, normalized_name, name_matches, restaurant_address)

\* lines 924-950
site_of_name(T, entreprise_name, name_or_empty, normalized_name, collecte,
             restaurant_address) ==
  site_of_matches(T, entreprise_name, name_or_empty, normalized_name,
                  name_matches_of(T, normalized_name), collecte, restaurant_address)

\* _find_restaurant_site
find_restaurant_site(T, entreprise_name, collecte, restaurant_address) ==
  site_of_name(T, entreprise_name,
               IF Falsy(entreprise_name) THEN <<>> ELSE entreprise_name,
               Strip(Lower(IF Falsy(entreprise_name) THEN <<>> ELSE entreprise_name)),
               collecte, restaurant_address)

\* ---- the composer ---------------------------------------------------------------
IsAsciiAlnum(c) == c \in Range(AsciiLower) \cup Range(AsciiUpper) \cup Range(Digits)

\* the sanitization without the decomposition of accented letters
sanitize_invoice_number_NoFold(invoice_number) ==
  IF Falsy(invoice_number) THEN invoice_number
  ELSE SelectSeq(invoice_number, IsAsciiAlnum)

\* _sanitize_invoice_number: NFKD, drop the combining marks, keep [a-zA-Z0-9]
sanitize_invoice_number(invoice_number) ==
  IF Falsy(invoice_number) THEN invoice_number
  ELSE SelectSeq(DropMarks(Decompose(invoice_number)), IsAsciiAlnum)

\* _determine_collecte_suffix
determine_collecte_suffix(collecte) == SelectSeq(Upper(collecte), LAMBDA c : c # " ")

RECURSIVE ValueOf(_)
ValueOf(digits) ==
  IF digits = <<>> THEN 0
  ELSE 10 * ValueOf(SubSeq(digits, 1, Len(digits) - 1)) + DigitValue(digits[Len(digits)])

AllDigits(t) == \A i \in 1..Len(t) : IsDigit(t[i])

\* str(int(digits)) for a non-empty text of digits
RECURSIVE DropLeadingZeros(_)
DropLeadingZeros(digits) ==
  IF Len(digits) > 1 /\ digits[1] = "0" THEN DropLeadingZeros(Tail(digits)) ELSE digits

IsLeap(y) == (y % 4 = 0 /\ y % 100 # 0) \/ y % 400 = 0

DaysIn(m, y) ==
  IF m = 2 THEN (IF IsLeap(y) THEN 29 ELSE 28)
  ELSE IF m \in {4, 6, 9, 11} THEN 30 ELSE 31

\* what strptime(date_str, '%d/%m/%Y') accepts: day "01".."31", "1".."9" or
\* " 1".." 9", month "01".."12" or "1".."9", year of four digits, and a date
\* that exists
DateParts(date_str) == SplitOn(date_str, {"/"})

DayText(d) == IF Len(d) = 2 /\ d[1] = " " THEN <<d[2]>> ELSE d

ParsesAsDate(date_str) ==
  LET parts == DateParts(date_str)
      d == DayText(parts[1])
      m == parts[2]
      y == parts[3]
  IN  /\ Len(parts) = 3
      /\ Len(d) \in {1, 2} /\ AllDigits(d)
      /\ Len(m) \in {1, 2} /\ AllDigits(m)
      /\ Len(y) = 4 /\ AllDigits(y)
      /\ ValueOf(y) >= 1
      /\ ValueOf(m) \in 1..12
      /\ ValueOf(d) \in 1..DaysIn(ValueOf(m), ValueOf(y))

TwoDigits(k) == <<Digits[(k \div 10) + 1], Digits[(k % 10) + 1]>>

UNKNOWN == <<"U", "N", "K", "N", "O", "W", "N">>

\* _format_date: strftime('%m%Y') prints the month with two digits and the
\* year as the C library does, without leading zeros
format_date(date_str) ==
  IF ParsesAsDate(date_str)
    THEN TwoDigits(ValueOf(DateParts(date_str)[2])) \o DropLeadingZeros(DateParts(date_str)[3])
    ELSE UNKNOWN

\* lines 1324-1327: the test for the operator's own address
is_rubo_address(raw_address) ==
  /\ raw_address # None
  /\ Contains(<<"3", "4">>, raw_address)
  /\ Contains(<<"b", "o", "u", "l", "e", "v", "a", "r", "d", " ", "d", "e", "s", " ", "i", "t", "a", "l", "i", "e", "n", "s">>, Lower(raw_address))

SiteNumberProviders == {<<"A", "B", "C", "D", "E">>, <<"R", "E", "F", "O", "O", "D">>, <<"V", "E", "O", "L", "I", "A">>}

Failure(run, error) == [run EXCEPT !.error = error]

Produced(run, site, collecte, invoice_date, invoice_number) ==
  [run EXCEPT !.produced = TRUE,
              !.filename = [site |-> site, collecte |-> collecte,
                            date |-> format_date(invoice_date),
                            number |-> sanitize_invoice_number(invoice_number)]]

\* a JSON number in the oracle's answer: the tag "int" followed by the
\* characters of str(n)
IntValue(digits) == <<"int">> \o digits

\* isinstance(site_number, int)
IsInt(v) == v # <<>> /\ v[1] = "int"

\* not site_number, for a text, None or an int
NoSiteNumber(site_number) == Falsy(site_number) \/ site_number = IntValue(<<"0">>)

\* lines 1573-1582: a text loses its non-digits and its leading zeros, an int
\* is printed as it is
sanitized_site_number(site_number) ==
  IF IsInt(site_number) THEN Tail(site_number)
  ELSE IF SelectSeq(site_number, IsDigit) = <<>> THEN <<>>
  ELSE DropLeadingZeros(SelectSeq(site_number, IsDigit))

\* lines 1584-1613: site_number is the sanitized site number
with_site_number(run, analysis, provider_name, site_number) ==
  IF site_number = <<>> THEN Failure(run, "empty_site_number")
  ELSE IF Falsy(analysis.invoice_date) \/ Falsy(analysis.invoice_number)
    THEN Failure(run, "missing_fields")
  ELSE Produced([run EXCEPT !.site = site_number, !.base_collecte = provider_name],
                site_number, provider_name,
                analysis.invoice_date, analysis.invoice_number)

\* _handle_invoice_with_site_number (site_number is a text, an int or None)
handle_invoice_with_site_number(run, analysis, provider_name) ==
  IF NoSiteNumber(analysis.site_number) THEN Failure(run, "no_site_number")
  ELSE with_site_number(run, analysis, provider_name,
                        sanitized_site_number(analysis.site_number))

\* _validate_collector
validate_collector(T, base_collector) == base_collector \in T.valid

\* lines 1384-1420 and 1288-1302: the file name, once the site is resolved
compose_with_site(atSite, analysis, base_collecte, found) ==
  IF found = Raised THEN Failure(atSite, "raised")
  ELSE IF Falsy(found.site) THEN Failure(atSite, "no_site")
  ELSE Produced([atSite EXCEPT !.site = found.site, !.name = found.name],
                found.site, determine_collecte_suffix(base_collecte),
                analysis.invoice_date, analysis.invoice_number)

\* lines 1369-1420 and 1275-1302: validate the collector, resolve the site
compose_with_collector(T, run, analysis, restaurant_address, base_collecte) ==
  IF Falsy(base_collecte) THEN Failure(run, "no_collector")
  ELSE IF ~validate_collector(T, base_collecte)
    THEN Failure([run EXCEPT !.base_collecte = base_collecte], "invalid_collector")
  ELSE compose_with_site(
         [run EXCEPT !.base_collecte = base_collecte, !.siteCalled = TRUE,
                     !.address = restaurant_address],
         analysis, base_collecte,
         find_restaurant_site(T, IF Falsy(analysis.entreprise) THEN <<>> ELSE analysis.entreprise,
                              base_collecte, restaurant_address))

\* lines 1367-1420 and 1273-1302: resolve the collector, validate it, resolve
\* the site, compose
resolve_and_compose(T, run, analysis, restaurant_address, order) ==
  compose_with_collector(T, run, analysis, restaurant_address,
                         find_base_collecte_name(T, analysis.invoice_provider, order))

\* the required-field test without its test of the invoice number
details_after_filter_NoNumberTest(T, run, analysis, restaurant_address, order) ==
  IF ~Falsy(analysis.invoice_provider)
     /\ Upper(analysis.invoice_provider) \in SiteNumberProviders
    THEN handle_invoice_with_site_number(run, analysis, Upper(analysis.invoice_provider))
  ELSE IF \/ Falsy(analysis.entreprise) /\ Falsy(restaurant_address)
          \/ Falsy(analysis.invoice_provider)
          \/ Falsy(analysis.invoice_date)
    THEN Failure(run, "missing_fields")
  ELSE resolve_and_compose(T, run, analysis, restaurant_address, order)

\* lines 1329-1420: restaurant_address is the address left by the filter
details_after_filter(T, run, analysis, restaurant_address, order) ==
  IF ~Falsy(analysis.invoice_provider)
     /\ Upper(analysis.invoice_provider) \in SiteNumberProviders
    THEN handle_invoice_with_site_number(run, analysis, Upper(analysis.invoice_provider))
  ELSE IF \/ Falsy(analysis.entreprise) /\ Falsy(restaurant_address)
          \/ Falsy(analysis.invoice_provider)
          \/ Falsy(analysis.invoice_date)
          \/ Falsy(analysis.invoice_number)
    THEN Failure(run, "missing_fields")
  ELSE resolve_and_compose(T, run, analysis, restaurant_address, order)

\* generate_new_filename_with_details, from the oracle's answer on
generate_new_filename_with_details(T, run, analysis, order) ==
  details_after_filter(T, run, analysis,
    IF is_rubo_address(analysis.restaurant_address) THEN None
    ELSE analysis.restaurant_address,
    order)

\* generate_new_filename, from the oracle's answer on
generate_new_filename(T, run, analysis, order) ==
  IF \/ Falsy(analysis.entreprise) \/ Falsy(analysis.invoice_provider)
     \/ Falsy(analysis.invoice_date) \/ Falsy(analysis.invoice_number)
    THEN Failure(run, "missing_fields")
    ELSE resolve_and_compose(T, run, analysis, analysis.restaurant_address, order)

\* ---- the calls of the model --------------------------------------------------
\* A behaviour is a call, then at most one other call, then the first call
\* again: All are the inputs of a first call, Between those of the call in
\* between.
InputsOf(op, All, Between) ==
  LET again == IF first.op = op THEN {first.input} ELSE {}
  IN  CASE last.n = 0 -> All
        [] last.n = 1 -> Between \cup again
        [] last.n = 2 -> again
        [] OTHER -> {}

Remember(run) ==
  /\ last' = [run EXCEPT !.n = last.n + 1]
  /\ first' = IF first.op = "none" THEN [run EXCEPT !.n = 1] ELSE first

LimiterUnchanged ==
  UNCHANGED <<procs, clock, disk, pc, mem, loc, outcome, pre, admitted,
              resetUsed, calls, refused, advances>>

ProviderInputs(P) == {[NoAnalysis EXCEPT !.invoice_provider = p] : p \in P}

\* one call of _find_base_collecte_name
FindBaseCollecte ==
  /\ \E input \in InputsOf("collector", ProviderInputs(Providers),
                           ProviderInputs({<<"S", "U", "E", "Z">>, <<"C", "O", "V", "E", "D">>})) :
       \E order \in Orders(provider_words(input.invoice_provider)) :
         Remember([NoRun EXCEPT
           !.op = "collector",
           !.input = input,
           !.order = order,
           !.base_collecte = find_base_collecte_name(tables, input.invoice_provider, order)])
  /\ UNCHANGED tables
  /\ LimiterUnchanged
  /\ UNCHANGED <<folder, batch>>

\* ---- inputs of the model -------------------------------------------------------
\* contents of "Liste des clients.xlsx" the model starts from, in file order
SiteCatalogs ==
  { << [Site |-> <<"1", "1", "7", "4">>, Nom |-> <<"M", "c", "D", "o", "n", "a", "l", "d", "'", "s", " ", "C", "h", "a", "l", "o", "n", " ", "N", "o", "r", "d">>, Adresse |-> <<"9", " ", "b", "d", " ", "b">>, CP |-> <<"7", "1", "1", "0", "0">>],
       [Site |-> <<"1", "1", "7", "3">>, Nom |-> <<"M", "c", "D", "o", "n", "a", "l", "d", "'", "s", " ", "C", "h", "a", "l", "o", "n">>, Adresse |-> <<"2", " ", "r", "u", "e", " ", "a">>, CP |-> <<"7", "1", "1", "0", "0">>],
       [Site |-> <<"4", "2">>, Nom |-> <<"Q", "u", "i", "c", "k", " ", "D", "i", "j", "o", "n">>, Adresse |-> <<"5", " ", "p", "l", " ", "c">>, CP |-> <<"2", "1", "0", "0", "0">>] >>,
    << [Site |-> <<"1", "1", "7", "4">>, Nom |-> <<"M", "c", "D", "o", "n", "a", "l", "d", "'", "s", " ", "C", "h", "a", "l", "o", "n", " ", "N", "o", "r", "d">>, Adresse |-> <<"1", "2", " ", "q", "u", "a", "i", " ", "g", "a", "m", "b", "e", "t", "t", "a">>, CP |-> <<"7", "1", "1", "0", "0">>],
       [Site |-> <<"1", "1", "7", "3">>, Nom |-> <<"M", "c", "D", "o", "n", "a", "l", "d", "'", "s", " ", "C", "h", "a", "l", "o", "n">>, Adresse |-> <<"2", " ", "r", "u", "e", " ", "a">>, CP |-> <<"7", "1", "1", "0", "0">>],
       [Site |-> <<"4", "2">>, Nom |-> <<"Q", "u", "i", "c", "k", " ", "D", "i", "j", "o", "n">>, Adresse |-> <<"5", " ", "p", "l", " ", "c">>, CP |-> <<"2", "1", "0", "0", "0">>] >> }

Entreprises ==
  { <<"M", "A", "C", " ", "D", "O", " ", "C", "H", "A", "L", "O", "N">>, <<"M", "c", "D", "o", "n", "a", "l", "d", "'", "s", " ", "C", "h", "a", "l", "o", "n", " ", "N", "o", "r", "d">>, <<"Q", "u", "i", "c", "k", " ", "D", "i", "j", "o", "n">>, <<"B", "u", "r", "g", "e", "r">>, <<>>, None }

\* the operator's own address, as the spec writes it and with its postal code
OperatorAddresses == { <<"3", "4", " ", "B", "o", "u", "l", "e", "v", "a", "r", "d", " ", "d", "e", "s", " ", "I", "t", "a", "l", "i", "e", "n", "s">>, <<"3", "4", " ", "B", "o", "u", "l", "e", "v", "a", "r", "d", " ", "d", "e", "s", " ", "I", "t", "a", "l", "i", "e", "n", "s", " ", "7", "5", "0", "0", "9", " ", "P", "a", "r", "i", "s">> }

Addresses == { <<>>, None, <<"2", " ", "r", "u", "e", " ", "a", " ", "7", "1", "1", "0", "0", " ", "C", "h", "a", "l", "o", "n">>, <<"9", " ", "b", "d", " ", "b">>, <<"9", " ", "b", "x", "y">>,
                <<"1", "2", " ", "q", "u", "a", "i", " ", "g", "a", "m", "b", "e", "t", "t", "a", " ", "2", "1", "0", "0", "0">>, <<"1", "2", " ", "q", "u", "a", "i", " ", "g", "a", "m", "b", "e", "t", "t", "a", " ", "2", "1", "0", "0", "0", " ", "z">> } \cup OperatorAddresses

SiteInputs(E, C, A) ==
  {[NoAnalysis EXCEPT !.entreprise = e, !.invoice_provider = c, !.restaurant_address = a] :
     e \in E, c \in C, a \in A}

\* one call of _find_restaurant_site(entreprise, collecte, address); collecte
\* is given in the place of the provider
FindRestaurantSite ==
  /\ \E input \in InputsOf("site", SiteInputs(Entreprises, {<<"S", "U", "E", "Z">>, <<"N", "O", "P", "E">>}, Addresses),
                           SiteInputs({<<"Q", "u", "i", "c", "k", " ", "D", "i", "j", "o", "n">>}, {<<"S", "U", "E", "Z">>}, {<<>>})) :
       LET found == find_restaurant_site(tables, input.entreprise, input.invoice_provider,
                                         input.restaurant_address)
       IN  Remember([NoRun EXCEPT
             !.op = "site",
             !.input = input,
             !.siteCalled = TRUE,
             !.address = input.restaurant_address,
             !.site = found.site,
             !.name = found.name])
  /\ UNCHANGED tables
  /\ LimiterUnchanged
  /\ UNCHANGED <<folder, batch>>

\* ---- documents of the model ----------------------------------------------------
\* the oracle's answer for the sample invoice of the tests
BaseAnalysis ==
  [entreprise |-> <<"M", "A", "C", " ", "D", "O", " ", "C", "H", "A", "L", "O", "N">>, invoice_provider |-> <<"S", "U", "E", "Z">>,
   invoice_date |-> <<"3", "0", "/", "0", "9", "/", "2", "0", "2", "4">>, invoice_number |-> <<"H", "0", "E", "0", "2", "2", "8", "3", "3", "3">>,
   restaurant_address |-> <<>>, site_number |-> None]

InvoiceNumbers ==
  { <<"H", "-", "0", "E", "/", "0", "2", "2", "8", " ", "3", "3", "3", "e_acute">>, <<"-", "-", "-">>, <<"F", " ", "1", "2">>, <<"e_acute">>, <<"N", "#", "7">>, <<>>, None }

InvoiceDates ==
  { <<"0", "1", "/", "0", "5", "/", "2", "0", "2", "5">>, <<"0", "3", "/", "0", "6", "/", "2", "0", "2", "5">>, <<"0", "1", "/", "0", "5", "/", "2", "0", "2", "5", " ", "-", " ", "3", "1", "/", "0", "5", "/", "2", "0", "2", "5">>, <<"3", "1", "/", "0", "2", "/", "2", "0", "2", "5">>, <<"1", "/", "5", "/", "2", "0", "2", "5">>,
    <<"2", "9", "/", "0", "2", "/", "2", "0", "2", "4">>, <<"1", "5", "/", "0", "9", "/", "2", "0", "2", "4">>, <<"0", "1", "/", "0", "5", "/", "0", "9", "9", "9">>, <<"2", "0", "2", "5", "-", "0", "5", "-", "0", "1">>, <<>>, None }

\* site numbers as texts and as JSON numbers
SiteNumbers ==
  { <<"8", "6", "5">>, <<"-", "0", "3", "5", "3">>, <<"n", ".">>, <<"0", "0", "0">>, <<>>, None,
    IntValue(<<"6", "2", "0">>), IntValue(<<"-", "3", "5", "3">>), IntValue(<<"0">>) }

\* the answers of the oracle: the sample answer with one or two fields changed
Analyses ==
       {[BaseAnalysis EXCEPT !.invoice_provider = p] : p \in Providers \cup {None}}
  \cup {[BaseAnalysis EXCEPT !.invoice_number = x] : x \in InvoiceNumbers}
  \cup {[BaseAnalysis EXCEPT !.invoice_date = d] : d \in InvoiceDates}
  \cup {[BaseAnalysis EXCEPT !.entreprise = e, !.restaurant_address = a] :
          e \in Entreprises, a \in Addresses}
  \cup {[BaseAnalysis EXCEPT !.invoice_provider = p, !.site_number = s, !.invoice_number = x] :
          p \in {<<"V", "e", "o", "l", "i", "a">>, <<"R", "E", "F", "O", "O", "D">>}, s \in SiteNumbers, x \in {<<"H", "0", "E", "0", "2", "2", "8", "3", "3", "3">>, <<"-", "-", "-">>, None}}

BetweenAnalyses ==
  {BaseAnalysis, [BaseAnalysis EXCEPT !.entreprise = <<"Q", "u", "i", "c", "k", " ", "D", "i", "j", "o", "n">>, !.invoice_provider = <<"C", "O", "V", "E", "D">>]}

\* generate_new_filename_with_details on one document
GenerateWithDetails ==
  /\ \E analysis \in InputsOf("details", Analyses, BetweenAnalyses) :
       \E order \in Orders(provider_words(analysis.invoice_provider)) :
         Remember(generate_new_filename_with_details(tables,
                    [NoRun EXCEPT !.op = "details", !.input = analysis, !.order = order],
                    analysis, order))
  /\ UNCHANGED tables
  /\ LimiterUnchanged
  /\ UNCHANGED <<folder, batch>>

\* generate_new_filename on one document
GenerateLegacy ==
  /\ \E analysis \in InputsOf("legacy", Analyses, BetweenAnalyses) :
       \E order \in Orders(provider_words(analysis.invoice_provider)) :
         Remember(generate_new_filename(tables,
                    [NoRun EXCEPT !.op = "legacy", !.input = analysis, !.order = order],
                    analysis, order))
  /\ UNCHANGED tables
  /\ LimiterUnchanged
  /\ UNCHANGED <<folder, batch>>

\* ---- specifications of the renamer --------------------------------------------
InitResolve ==
  /\ LimiterOff
  /\ tables \in {TablesOf(c, r) : c \in Catalogs, r \in SiteCatalogs}
  /\ first = NoRun
  /\ last = NoRun
  /\ BatchIdle

NextResolve ==
  \/ FindBaseCollecte
  \/ FindRestaurantSite

SpecResolve == InitResolve /\ [][NextResolve]_vars


NextCompose ==
  \/ GenerateWithDetails
  \/ GenerateLegacy

SpecCompose == InitResolve /\ [][NextCompose]_vars

\* ---- collector resolution: properties ----------------------------------------
Called(op) == last.op = op

ProviderUpper == Upper(last.input.invoice_provider)

ContainsAlias(i) == Contains(Upper(tables.aliases[i].alias), ProviderUpper)

\* C12 as stated: whenever the provider text contains an alias of the table,
\* whatever else it contains, the resolver returns the parent of that alias.
C12_AliasAlwaysWins ==
  Called("collector") =>
    \A i \in 1..Len(tables.aliases) :
      ContainsAlias(i) => last.base_collecte = tables.aliases[i].parent

\* C12 as amended: whenever the provider text contains an alias of the table,
\* the resolver returns the parent of the first alias, in table order, that
\* the text contains, whatever catalog keys the text contains as well.
C12_FirstAliasWins ==
  Called("collector") =>
    \A i \in 1..Len(tables.aliases) :
      (ContainsAlias(i) /\ \A j \in 1..(i - 1) : ~ContainsAlias(j)) =>
        last.base_collecte = tables.aliases[i].parent

\* a text that holds an alias next to a catalog key of another collector was
\* resolved to the parent of the alias
C12_Witness ==
  /\ Called("collector")
  /\ \E i \in 1..Len(tables.aliases), k \in 1..Len(tables.prestataires) :
       /\ ContainsAlias(i)
       /\ Contains(Upper(tables.prestataires[k]), ProviderUpper)
       /\ tables.prestataires[k] # tables.aliases[i].parent
       /\ last.base_collecte = tables.aliases[i].parent

NoAliasContained == \A i \in 1..Len(tables.aliases) : ~ContainsAlias(i)

CatalogKeys == Range(tables.prestataires)

NoWordSetMatch ==
  \A key \in CatalogKeys :
    ~(Range(Words(Upper(key))) \subseteq provider_words(last.input.invoice_provider))

NoSubstringMatch == \A key \in CatalogKeys : ~Contains(Upper(key), ProviderUpper)

\* the best ratio of a key against the tokens of the provider text is at
\* least pct / 100
Reaches(key, pct) ==
  \E w \in provider_words(last.input.invoice_provider) :
    AtLeastPct(Ratio(Upper(key), w), pct)

\* C14: when the provider text contains no alias and no catalog key as a word
\* set or substring, the resolver returns a key only if that key reaches the
\* ratio 0.8 against a token of the text, and returns no key when none does.
C14_NoLowConfidenceMatch ==
  (Called("collector") /\ NoAliasContained /\ NoWordSetMatch /\ NoSubstringMatch) =>
    /\ (\A key \in CatalogKeys : ~Reaches(key, FUZZY_MATCH_THRESHOLD)) =>
          last.base_collecte = None
    /\ last.base_collecte # None => Reaches(last.base_collecte, FUZZY_MATCH_THRESHOLD)

\* a text whose closest key has a ratio of 0.75 was left unresolved
C14_Witness ==
  /\ Called("collector")
  /\ NoAliasContained /\ NoWordSetMatch /\ NoSubstringMatch
  /\ \E key \in CatalogKeys :
       Reaches(key, FUZZY_MATCH_THRESHOLD - 5) /\ ~Reaches(key, FUZZY_MATCH_THRESHOLD)
  /\ last.base_collecte = None

\* C17: the provider text "SOCIETE RUBO" is never resolved to a collector key,
\* whatever the catalog holds.
C17_OperatorNeverResolved ==
  (Called("collector") /\ last.input.invoice_provider = <<"S", "O", "C", "I", "E", "T", "E", " ", "R", "U", "B", "O">>) =>
    last.base_collecte = None

\* ---- site resolution and determinism: properties ------------------------------
Outcome(run) == <<run.base_collecte, run.site, run.name, run.produced, run.filename, run.error>>

\* C11: a call repeated on the same input, whatever call was made in between
\* and in whatever order the set of provider words is iterated, returns what
\* it returned the first time.
C11_SameInputSameOutcome ==
  (last.op = first.op /\ last.input = first.input) => Outcome(last) = Outcome(first)

\* a text of two tokens that is resolved by similarity was resolved a second
\* time, after another call, with its tokens iterated in another order
C11_Witness ==
  /\ last.n = 3
  /\ last.op = "collector" /\ last.input = first.input
  /\ last.order # first.order
  /\ last.base_collecte # None
  /\ NoAliasContained /\ NoWordSetMatch /\ NoSubstringMatch

NameMatches ==
  name_matches_of(tables, Strip(Lower(IF Falsy(last.input.entreprise) THEN <<>>
                                      ELSE last.input.entreprise)))

KnownCollecte ==
  Upper(last.input.invoice_provider) \in {Upper(c) : c \in Range(tables.prestataires)}

\* C15: without an address, the site returned is a name match whose name is
\* not longer than that of any other name match; for "MAC DO CHALON" with
\* collector "SUEZ" it is the site named "McDonald's Chalon", not the one
\* named "McDonald's Chalon Nord".
C15_ShortestNameWins ==
  (Called("site") /\ Falsy(last.input.restaurant_address) /\ KnownCollecte
     /\ NameMatches # <<>>) =>
    /\ \E r \in Range(NameMatches) :
         /\ last.site = r.Site /\ last.name = r.Nom
         /\ \A q \in Range(NameMatches) : Len(r.Nom) <= Len(q.Nom)
    /\ (last.input.entreprise = <<"M", "A", "C", " ", "D", "O", " ", "C", "H", "A", "L", "O", "N">> /\ last.input.invoice_provider = <<"S", "U", "E", "Z">>) =>
         last.name = <<"M", "c", "D", "o", "n", "a", "l", "d", "'", "s", " ", "C", "h", "a", "l", "o", "n">>

\* "MAC DO CHALON" matched two sites, the longer name first in the catalog,
\* and the site of the shorter name was returned
C15_Witness ==
  /\ Called("site")
  /\ last.input.entreprise = <<"M", "A", "C", " ", "D", "O", " ", "C", "H", "A", "L", "O", "N">>
  /\ last.input.invoice_provider = <<"S", "U", "E", "Z">>
  /\ last.input.restaurant_address = <<>>
  /\ Len(NameMatches) = 2
  /\ Len(NameMatches[1].Nom) > Len(NameMatches[2].Nom)
  /\ last.site = NameMatches[2].Site

\* ---- the composer: properties -----------------------------------------------------
Generated == last.op \in {"details", "legacy"}

\* C13: the collector component of every file name produced is the component
\* of a key of the valid collectors, on every path.
C13_CollectorInCatalog ==
  (Generated /\ last.produced) =>
    \E key \in tables.valid : last.filename.collecte = determine_collecte_suffix(key)

\* C16: when the oracle returns the operator's own address, site resolution
\* is called without an address, on every path.
C16_OperatorAddressDiscarded ==
  (Generated /\ last.siteCalled /\ last.input.restaurant_address \in OperatorAddresses) =>
    Falsy(last.address)

BaseLetter(c) ==
  IF c \in Range(AccentedLower) THEN AccentedBase[IndexIn(c, AccentedLower)]
  ELSE IF c \in Range(AccentedUpper) THEN ToUpper(AccentedBase[IndexIn(c, AccentedUpper)])
  ELSE c

C20_NoEmptyComponent ==
  (Generated /\ last.produced) =>
    /\ ~Falsy(last.filename.site)
    /\ ~Falsy(last.filename.collecte)
    /\ ~Falsy(last.filename.date)
    /\ ~Falsy(last.filename.number)

\* ---- the composer: dates, site numbers and required fields ------------------------
Shortcut ==
  /\ last.op = "details"
  /\ ~Falsy(last.input.invoice_provider)
  /\ Upper(last.input.invoice_provider) \in SiteNumberProviders

\* C21: a date that does not parse as day/month/year gives a failure and no
\* file name.
C21_UnparsableDateFails ==
  (Generated /\ ~ParsesAsDate(last.input.invoice_date)) => ~last.produced

\* the characters of the site number the oracle returned
HintText == IF IsInt(last.input.site_number) THEN Tail(last.input.site_number)
            ELSE last.input.site_number

\* C22: on the provider shortcut the site component of the file name is made
\* of decimal digits only and has no leading zero, whatever form the site
\* number has; a site number without any digit gives a failure and no file name.
C22_SiteComponentIsNumber ==
  Shortcut =>
    /\ last.produced =>
         /\ last.filename.site # <<>>
         /\ AllDigits(last.filename.site)
         /\ Len(last.filename.site) > 1 => last.filename.site[1] # "0"
    /\ SelectSeq(HintText, IsDigit) = <<>> => ~last.produced

\* C23 as stated: without entreprise, provider, date or invoice number there
\* is no file name, except on the provider shortcut.
C23_MissingFieldFails ==
  (/\ Generated /\ ~Shortcut
   /\ \/ Falsy(last.input.entreprise) \/ Falsy(last.input.invoice_provider)
      \/ Falsy(last.input.invoice_date) \/ Falsy(last.input.invoice_number))
    => ~last.produced

\* the address that is left once the operator's own address is filtered out
AddressKept ==
  IF last.op = "details" /\ is_rubo_address(last.input.restaurant_address) THEN None
  ELSE last.input.restaurant_address

\* C23 as amended: without provider, date or invoice number there is no file
\* name on any path; without entreprise there is no file name unless the
\* provider shortcut applies or generate_new_filename_with_details is given an
\* address other than the operator's own.
C23_MissingFieldFailsUnlessAddress ==
  /\ (/\ Generated
      /\ \/ Falsy(last.input.invoice_provider)
         \/ Falsy(last.input.invoice_date) \/ Falsy(last.input.invoice_number))
       => ~last.produced
  /\ (Generated /\ Falsy(last.input.entreprise) /\ last.produced)
       => \/ Shortcut
          \/ last.op = "details" /\ ~Falsy(AddressKept)

\* a file name was produced for a document without entreprise, from its
\* address, off the provider shortcut
C23_Witness ==
  /\ last.op = "details" /\ ~Shortcut
  /\ Falsy(last.input.entreprise)
  /\ ~Falsy(AddressKept)
  /\ last.produced

\* C26: for a date that parses as day/month/year the period component is the
\* month in two digits followed by the year in four digits, whatever the day.
C26_PeriodIsMonthAndYear ==
  (Generated /\ last.produced /\ ParsesAsDate(last.input.invoice_date)) =>
    /\ Len(last.filename.date) = 6
    /\ SubSeq(last.filename.date, 1, 2) = TwoDigits(ValueOf(DateParts(last.input.invoice_date)[2]))
    /\ ValueOf(SubSeq(last.filename.date, 3, 6)) = ValueOf(DateParts(last.input.invoice_date)[3])
    /\ AllDigits(last.filename.date)

\* ---- site resolution by address: properties -------------------------------------
AddressSimilarity(r) == calculate_address_similarity(last.input.restaurant_address, r.Adresse)

\* C27: with no name match and an address, the site returned is that of a
\* record of the catalog, name-similar or not, whose stored address has the
\* highest similarity to the address, whenever that similarity is at least 0.7.
C27_BestAddressOfCatalog ==
  (/\ Called("site") /\ NameMatches = <<>> /\ ~Falsy(last.input.restaurant_address)
   /\ \E r \in Range(tables.restaurants) : AtLeastPct(AddressSimilarity(r), 70))
    => \E r \in Range(tables.restaurants) :
         /\ last.site = r.Site
         /\ AtLeastPct(AddressSimilarity(r), 70)
         /\ \A q \in Range(tables.restaurants) :
              ~Greater(AddressSimilarity(q), AddressSimilarity(r))

\* the postal code of the record agrees with that of the address, or one of
\* the two is missing
PostalCodeAgrees(r) ==
  \/ Falsy(extract_postal_code(last.input.restaurant_address))
  \/ Falsy(r.CP)
  \/ r.CP = extract_postal_code(last.input.restaurant_address)

\* the name match whose stored address is strictly the most similar
BestCandidate(r) ==
  \A q \in Range(NameMatches) :
    q # r => Greater(AddressSimilarity(r), AddressSimilarity(q))

SeveralNameMatches ==
  /\ Called("site") /\ KnownCollecte
  /\ Len(NameMatches) > 1
  /\ ~Falsy(last.input.restaurant_address)

\* C28 as stated: with several name matches and an address, the name match
\* whose stored address is the most similar to the address is returned when
\* that similarity is at least 0.6 and the postal codes agree or cannot be
\* compared, and when it is at least 0.8 whatever the postal codes; 0.6 and
\* 0.8 themselves are enough.
C28_BoundariesAccept ==
  SeveralNameMatches =>
    \A r \in Range(NameMatches) :
      (/\ BestCandidate(r)
       /\ \/ AtLeastPct(AddressSimilarity(r), 60) /\ PostalCodeAgrees(r)
          \/ AtLeastPct(AddressSimilarity(r), 80))
        => last.site = r.Site /\ last.name = r.Nom

\* C28 as amended: the most similar name match is returned when its
\* similarity is above 0.6 and the postal codes agree or cannot be compared,
\* and when it is above 0.8 whatever the postal codes.  The boundary values
\* are not enough: for "MAC DO CHALON" and the address "9 bxy", at 0.6 from
\* the address "9 bd b" of site 1174, the later strategies return site 1173;
\* for the address "12 quai gambetta 21000 z", at 0.8 from the address
\* "12 quai gambetta" of site 1174 whose postal code is 71100, they return
\* site 42.
C28_AboveThresholdsAccept ==
  SeveralNameMatches =>
    /\ \A r \in Range(NameMatches) :
         (/\ BestCandidate(r)
          /\ \/ AbovePct(AddressSimilarity(r), 60) /\ PostalCodeAgrees(r)
             \/ AbovePct(AddressSimilarity(r), 80))
           => last.site = r.Site /\ last.name = r.Nom
    /\ \A r \in Range(NameMatches) :
         (/\ last.input.entreprise = <<"M", "A", "C", " ", "D", "O", " ", "C", "H", "A", "L", "O", "N">>
          /\ last.input.restaurant_address = <<"9", " ", "b", "x", "y">> /\ r.Adresse = <<"9", " ", "b", "d", " ", "b">>)
           => /\ BestCandidate(r) /\ PostalCodeAgrees(r)
              /\ AtLeastPct(AddressSimilarity(r), 60) /\ ~AbovePct(AddressSimilarity(r), 60)
              /\ last.site = <<"1", "1", "7", "3">>
    /\ \A r \in Range(NameMatches) :
         (/\ last.input.entreprise = <<"M", "A", "C", " ", "D", "O", " ", "C", "H", "A", "L", "O", "N">>
          /\ last.input.restaurant_address = <<"1", "2", " ", "q", "u", "a", "i", " ", "g", "a", "m", "b", "e", "t", "t", "a", " ", "2", "1", "0", "0", "0", " ", "z">>
          /\ r.Adresse = <<"1", "2", " ", "q", "u", "a", "i", " ", "g", "a", "m", "b", "e", "t", "t", "a">>)
           => /\ BestCandidate(r) /\ ~PostalCodeAgrees(r)
              /\ AtLeastPct(AddressSimilarity(r), 80) /\ ~AbovePct(AddressSimilarity(r), 80)
              /\ last.site = <<"4", "2">>

\* "MAC DO CHALON" matched two sites by name; the address "12 quai gambetta
\* 21000" is above 0.8 from the address of the first, whose postal code is
\* 71100, and that site was returned
C28_Witness ==
  /\ SeveralNameMatches
  /\ last.input.restaurant_address = <<"1", "2", " ", "q", "u", "a", "i", " ", "g", "a", "m", "b", "e", "t", "t", "a", " ", "2", "1", "0", "0", "0">>
  /\ \E r \in Range(NameMatches) :
       /\ BestCandidate(r) /\ AbovePct(AddressSimilarity(r), 80)
       /\ ~PostalCodeAgrees(r)
       /\ last.site = r.Site

\* ---- the batch: rename_pdfs_in_directory ---------------------------------------
\* the index of the last dot of a name, 0 if it has none
LastDot(name) ==
  CHOOSE i \in 0..Len(name) :
    /\ i = 0 \/ name[i] = "."
    /\ \A j \in (i + 1)..Len(name) : name[j] # "."

\* Path.suffix: the name from its last dot on; empty if the dot is the first
\* or the last character or if there is none
suffix(name) ==
  IF LastDot(name) <= 1 \/ LastDot(name) = Len(name) THEN <<>>
  ELSE SubSeq(name, LastDot(name), Len(name))

\* line 1431: the documents of a directory, in the order iterdir yields them
pdf_files_of(dir) == Orders({name \in DOMAIN dir : Lower(suffix(name)) = <<".", "p", "d", "f">>})

\* the content of a file, by what the extraction and the oracle make of it:
\* neither an image nor text can be extracted; the oracle's reply is not JSON;
\* the reply is a JSON list; the reply is the object analysis
Unreadable == [kind |-> "unreadable", answer |-> NoAnalysis]

NotJson == [kind |-> "not_json", answer |-> NoAnalysis]

NotObject == [kind |-> "not_object", answer |-> NoAnalysis]

Invoice(analysis) == [kind |-> "invoice", answer |-> analysis]

\* the empty dictionary
Empty == [kind |-> "empty", answer |-> NoAnalysis]

\* every path of _analyze_invoice_with_gemini that ends before generate_content
\* is called, and a mutant that calls it whatever wait_if_needed did
NotCalled == [called |-> FALSE, result |-> Empty]

Replied(content) ==
  [called |-> TRUE, result |-> IF content.kind = "not_json" THEN Empty ELSE content]

analyze_invoice_with_gemini_Unguarded(admit, content) ==
  IF content.kind = "unreadable" THEN NotCalled ELSE Replied(content)

\* _analyze_invoice_with_gemini from the end of wait_if_needed on: admit is how
\* wait_if_needed ended, called says whether generate_content was called
analyze_invoice_with_gemini(admit, content) ==
  IF admit # "admitted" THEN NotCalled
  ELSE IF content.kind = "unreadable" THEN NotCalled
  ELSE Replied(content)

\* lines 1413 and 1605: the name built of the four components
FileName(f) == f.site \o <<"-">> \o f.collecte \o <<"-">> \o f.date \o <<"-">> \o f.number \o <<".", "p", "d", "f">>

NoName == [raised |-> FALSE, name |-> None]

Raises == [raised |-> TRUE, name |-> None]

name_of(run) ==
  IF run.error = "raised" THEN Raises
  ELSE IF run.produced THEN [raised |-> FALSE, name |-> FileName(run.filename)]
  ELSE NoName

\* generate_new_filename_with_details on the value of the analysis: the name,
\* None, or an exception
new_filename(T, result, order) ==
  IF result.kind = "empty" THEN NoName
  ELSE IF result.kind = "not_object" THEN Raises
  ELSE name_of(generate_new_filename_with_details(T,
         [NoRun EXCEPT !.op = "details", !.input = result.answer, !.order = order],
         result.answer, order))

\* Path.rename
Renamed(dir, old, new) ==
  [name \in (DOMAIN dir \ {old}) \cup {new} |-> IF name = new THEN dir[old] ELSE dir[name]]

\* results[class].append(entry)
Recorded(s, class, entry) == [s EXCEPT !.batch.results[class] = Append(@, entry)]

\* the loop body without its exception handler
loop_body_NoHandler(s, pdf_file, out) ==
  IF out.raised THEN [s EXCEPT !.batch.aborted = TRUE]
  ELSE IF out.name = None THEN Recorded(s, "failed", [file |-> pdf_file])
  ELSE IF out.name \in DOMAIN s.folder
    THEN Recorded(s, "skipped", [original |-> pdf_file, target |-> out.name])
  ELSE Recorded([s EXCEPT !.folder = IF s.batch.dry_run THEN @ ELSE Renamed(@, pdf_file, out.name)],
                "success", [original |-> pdf_file, new |-> out.name])

\* the loop body without the test of new_path.exists()
loop_body_NoExistsTest(s, pdf_file, out) ==
  IF out.raised \/ out.name = None THEN Recorded(s, "failed", [file |-> pdf_file])
  ELSE Recorded([s EXCEPT !.folder = IF s.batch.dry_run THEN @ ELSE Renamed(@, pdf_file, out.name)],
                "success", [original |-> pdf_file, new |-> out.name])

\* lines 1440-1486: one iteration of the loop, from the return of
\* generate_new_filename_with_details on; s is the batch and its directory
loop_body(s, pdf_file, out) ==
  IF out.raised \/ out.name = None THEN Recorded(s, "failed", [file |-> pdf_file])
  ELSE IF out.name \in DOMAIN s.folder
    THEN Recorded(s, "skipped", [original |-> pdf_file, target |-> out.name])
  ELSE Recorded([s EXCEPT !.folder = IF s.batch.dry_run THEN @ ELSE Renamed(@, pdf_file, out.name)],
                "success", [original |-> pdf_file, new |-> out.name])

\* the list of the results that an iteration extended
ClassOf(after, before) ==
  IF Len(after.success) > Len(before.success) THEN "success"
  ELSE IF Len(after.failed) > Len(before.failed) THEN "failed"
  ELSE IF Len(after.skipped) > Len(before.skipped) THEN "skipped"
  ELSE "none"

\* history: the row of the document, the directory before and after its
\* iteration and the list that received it
Logged(after, before, row) ==
  [after EXCEPT !.batch.log = Append(@,
     [doc |-> row.doc, admit |-> row.admit, admissions |-> row.admissions,
      called |-> row.called, out |-> row.out,
      before |-> DOMAIN before.folder, after |-> DOMAIN after.folder,
      class |-> ClassOf(after.batch.results, before.batch.results)])]

\* what the analysis of a document did
RowOf(pdf_file, admit, admissions, analysis, order) ==
  [doc |-> pdf_file, admit |-> admit, admissions |-> admissions,
   called |-> analysis.called, out |-> new_filename(tables, analysis.result, order)]

\* the loop goes on to the next document, or ends
Continued(s) ==
  [s EXCEPT !.batch.i = @ + 1,
            !.batch.phase = IF s.batch.aborted THEN "aborted"
                            ELSE IF s.batch.i = Len(s.batch.pdf_files) THEN "done"
                            ELSE "admit",
            !.batch.calls0 = calls,
            !.batch.admitted0 = Len(admitted)]

Becomes(s) == batch' = s.batch /\ folder' = s.folder

Now == [batch |-> batch, folder |-> folder]

\* rename_pdfs_in_directory is called: lines 1422-1438
RenamePdfsInDirectory(p) ==
  /\ pc[p] = "idle"
  /\ batch.phase = "none"
  /\ \E dry_run \in BOOLEAN :
       \E pdf_files \in pdf_files_of(folder) :
         batch' = [NoBatch EXCEPT !.phase = IF pdf_files = <<>> THEN "done" ELSE "admit",
                                  !.dry_run = dry_run,
                                  !.pdf_files = pdf_files,
                                  !.i = 1,
                                  !.calls0 = calls,
                                  !.admitted0 = Len(admitted),
                                  !.listed = folder]
  /\ UNCHANGED <<tables, first, last, folder>>
  /\ LimiterUnchanged

Waiting == batch.phase = "admit" /\ calls = batch.calls0

\* line 783: wait_if_needed for the document pdf_files[i]
Admit(p) == Waiting /\ Begin(p)

\* time passes between two documents
Elapse(d) == Waiting /\ Advance(d)

\* lines 784-844 and 1308-1486: the rest of the iteration, after wait_if_needed
\* returned or raised
ProcessDocument(p) ==
  /\ batch.phase = "admit"
  /\ calls = batch.calls0 + 1
  /\ pc[p] = "idle"
  /\ \E order \in Orders(provider_words(folder[batch.pdf_files[batch.i]].answer.invoice_provider)) :
       Becomes(Continued(Logged(
         loop_body(Now, batch.pdf_files[batch.i],
                   new_filename(tables,
                     analyze_invoice_with_gemini(outcome[p], folder[batch.pdf_files[batch.i]]).result,
                     order)),
         Now,
         RowOf(batch.pdf_files[batch.i], outcome[p], Len(admitted) - batch.admitted0,
               analyze_invoice_with_gemini(outcome[p], folder[batch.pdf_files[batch.i]]),
               order))))
  /\ UNCHANGED <<tables, first, last>>
  /\ LimiterUnchanged

\* ---- directories and ledgers of the batches --------------------------------
\* a ledger the program wrote earlier today: one call is left for today, the
\* last call was two minutes ago
SpentLedger ==
  [daily_requests |-> EarlierDaily, minute_requests |-> <<StartClock - 2 * Minute>>,
   last_updated |-> StartClock - 2 * Minute]

BatchFiles == {BadFile("missing"), FileOf(SpentLedger)}

DijonAnalysis == [BaseAnalysis EXCEPT !.entreprise = <<"Q", "u", "i", "c", "k", " ", "D", "i", "j", "o", "n">>]

NoProvider == [BaseAnalysis EXCEPT !.invoice_provider = None]

Dir2(n1, c1, n2, c2) == [name \in {n1, n2} |-> IF name = n1 THEN c1 ELSE c2]

Dir3(n1, c1, n2, c2, n3, c3) ==
  [name \in {n1, n2, n3} |-> IF name = n1 THEN c1 ELSE IF name = n2 THEN c2 ELSE c3]

\* two scans of one invoice; an invoice next to a file that an earlier run
\* named; documents that fail before one that succeeds; a file that bears the
\* name another document will be given
AllDirectories ==
  { Dir3(<<"a", ".", "p", "d", "f">>, Invoice(BaseAnalysis), <<"b", ".", "P", "D", "F">>, Invoice(BaseAnalysis), <<"n", "o", "t", "e", "s", ".", "t", "x", "t">>, Unreadable),
    Dir2(<<"a", ".", "p", "d", "f">>, Invoice(BaseAnalysis), <<"1", "1", "7", "3", "-", "S", "U", "E", "Z", "-", "0", "9", "2", "0", "2", "4", "-", "H", "0", "E", "0", "2", "2", "8", "3", "3", "3", ".", "p", "d", "f">>, Invoice(BaseAnalysis)),
    Dir3(<<"a", ".", "p", "d", "f">>, NotObject, <<"b", ".", "P", "D", "F">>, Unreadable, <<"c", ".", "p", "d", "f">>, Invoice(DijonAnalysis)),
    Dir3(<<"a", ".", "p", "d", "f">>, NotJson, <<"b", ".", "P", "D", "F">>, Invoice(NoProvider), <<"c", ".", "p", "d", "f">>, Invoice(BaseAnalysis)),
    Dir3(<<"a", ".", "p", "d", "f">>, Invoice(BaseAnalysis), <<"b", ".", "P", "D", "F">>, Invoice(DijonAnalysis),
         <<"4", "2", "-", "S", "U", "E", "Z", "-", "0", "9", "2", "0", "2", "4", "-", "H", "0", "E", "0", "2", "2", "8", "3", "3", "3", ".", "p", "d", "f">>, Invoice(BaseAnalysis)),
    Dir2(<<"n", "o", "t", "e", "s", ".", "t", "x", "t">>, Unreadable, <<".", "p", "d", "f">>, Unreadable) }

\* the directories whose batch fits in the calls of a behaviour
Directories ==
  {dir \in AllDirectories : \A files \in pdf_files_of(dir) : Len(files) <= MaxCalls}

\* the tables of the batches: the longest collector catalog and the first site
\* catalog
BatchTables ==
  TablesOf(CHOOSE c \in Catalogs : Len(c) = 4,
           CHOOSE r \in SiteCatalogs : r[1].Adresse = <<"9", " ", "b", "d", " ", "b">>)

InitBatch ==
  /\ procs = {1}
  /\ clock = StartClock
  /\ disk \in BatchFiles
  /\ pc = [p \in procs |-> "down"]
  /\ mem = [p \in procs |-> NoLedger]
  /\ loc = [p \in procs |-> NoLocals]
  /\ outcome = [p \in procs |-> "none"]
  /\ pre = [p \in procs |-> [mem |-> NoLedger, disk |-> BadFile("missing"), at |-> 0]]
  /\ admitted = <<>>
  /\ resetUsed = FALSE
  /\ calls = 0
  /\ refused = 0
  /\ advances = 0
  /\ tables = BatchTables
  /\ first = NoRun
  /\ last = NoRun
  /\ folder \in Directories
  /\ batch = NoBatch

NextBatch ==
  \/ \E p \in procs : Construct(p)
  \/ \E p \in procs : RenamePdfsInDirectory(p)
  \/ \E p \in procs : Admit(p)
  \/ \E p \in procs : Wake(p)
  \/ AdvanceToWake
  \/ \E d \in Steps : Elapse(d)
  \/ \E p \in procs : ProcessDocument(p)

SpecBatch == InitBatch /\ [][NextBatch]_vars

\* ---- the batch: properties ------------------------------------------------------
Rows == 1..Len(batch.log)

Done == batch.phase = "done"

\* the number of entries of the three lists that name the document
Entries(doc) ==
    Cardinality({j \in 1..Len(batch.results.success) : batch.results.success[j].original = doc})
  + Cardinality({j \in 1..Len(batch.results.failed) : batch.results.failed[j].file = doc})
  + Cardinality({j \in 1..Len(batch.results.skipped) : batch.results.skipped[j].original = doc})

\* C24: no exception leaves the loop of a batch; the batch lists every document
\* of the directory, every document whose iteration is over is in exactly one
\* of the lists success, failed and skipped, once, and the others are in none,
\* so that the lists of a finished batch hold each document exactly once.
C24_EveryDocumentOnce ==
  /\ ~batch.aborted
  /\ batch.phase # "aborted"
  /\ batch.phase # "none" =>
       {batch.pdf_files[k] : k \in 1..Len(batch.pdf_files)}
         = {name \in DOMAIN batch.listed : Lower(suffix(name)) = <<".", "p", "d", "f">>}
  /\ \A k \in 1..Len(batch.pdf_files) :
       Entries(batch.pdf_files[k]) = IF k < batch.i THEN 1 ELSE 0
  /\ Done => Len(batch.results.success) + Len(batch.results.failed)
               + Len(batch.results.skipped) = Len(batch.pdf_files)

\* a finished batch in which a document raised an exception, another could
\* not be analysed, and a later one was given its name
C24_Witness ==
  /\ Done
  /\ \E j, k, l \in Rows :
       /\ batch.log[j].out.raised
       /\ k # j /\ batch.log[k].class = "failed"
       /\ l > j /\ l > k /\ batch.log[l].class = "success"

\* C25: in every iteration of a batch, the oracle was called only if
\* wait_if_needed had returned, and then exactly one admission was recorded
\* for the document; when wait_if_needed raised the daily-limit exception the
\* oracle was not called.
C25_OracleOnlyAfterAdmit ==
  \A k \in Rows :
    /\ batch.log[k].called =>
         batch.log[k].admit = "admitted" /\ batch.log[k].admissions = 1
    /\ batch.log[k].admit = "daily_limit" =>
         ~batch.log[k].called /\ batch.log[k].admissions = 0

\* a batch in which the oracle was called for a document and not called for a
\* later one, which met the daily limit and failed
C25_Witness ==
  \E j, k \in Rows :
    /\ j < k
    /\ batch.log[j].called
    /\ batch.log[k].admit = "daily_limit"
    /\ batch.log[k].class = "failed"

\* C29: in a live run an iteration changes the directory only by giving the
\* document a name that no file bore at that moment; a document whose name
\* was borne by a file is skipped and the directory stays as it was; the
\* number of files of the directory never changes.
C29_RenameOnlyToFreeName ==
  (batch.phase # "none" /\ ~batch.dry_run) =>
    /\ \A k \in Rows :
         /\ batch.log[k].after # batch.log[k].before =>
              /\ batch.log[k].out.name \notin batch.log[k].before
              /\ batch.log[k].class = "success"
         /\ batch.log[k].class = "success" =>
              batch.log[k].after
                = (batch.log[k].before \ {batch.log[k].doc}) \cup {batch.log[k].out.name}
         /\ (batch.log[k].out.name # None /\ batch.log[k].out.name \in batch.log[k].before) =>
              /\ batch.log[k].class = "skipped"
              /\ batch.log[k].after = batch.log[k].before
    /\ Cardinality(DOMAIN folder) = Cardinality(DOMAIN batch.listed)
    /\ \A name \in DOMAIN batch.listed :
         \E new \in DOMAIN folder : folder[new] = batch.listed[name]

\* a finished live run that renamed a document and skipped another whose
\* name was taken
C29_Witness ==
  /\ Done
  /\ ~batch.dry_run
  /\ \E j, k \in Rows :
       /\ batch.log[j].class = "success"
       /\ batch.log[j].out.name \in DOMAIN folder
       /\ batch.log[j].doc \notin DOMAIN folder
       /\ batch.log[k].class = "skipped"
       /\ batch.log[k].doc \in DOMAIN folder

\* the batch run again on the directory as it was listed, in the other mode,
\* with the names that this batch computed
RECURSIVE Replayed(_, _, _)
Replayed(s, log, k) ==
  IF k > Len(log) THEN s
  ELSE Replayed(loop_body(s, log[k].doc, log[k].out), log, k + 1)

OtherMode ==
  Replayed([batch |-> [NoBatch EXCEPT !.dry_run = ~batch.dry_run], folder |-> batch.listed],
           batch.log, 1)

\* C30: a finished batch put every document in the list in which the batch of
\* the other mode puts it, given the same names; a dry run left the directory
\* as it was.
C30_DryRunPredictsLiveRun ==
  Done =>
    /\ OtherMode.batch.results = batch.results
    /\ batch.dry_run => folder = batch.listed
====
